---- MODULE Spec2Model ----
(***************************************************************************)
(* CalDAV calendar sync of super-productivity:                             *)
(*   src/app/features/caldav-calendar-sync/caldav-calendar.service.ts      *)
(*                                                                         *)
(* A string is a sequence of tokens.  The characters the code treats       *)
(* specially ("|", "/", "\\", ";", ",", "\n") are tokens of their own; any *)
(* other token stands for a run of ordinary characters.  A value that may  *)
(* be null/undefined is a set with at most one element (None, Some(v)).    *)
(***************************************************************************)
EXTENDS Integers, Sequences, FiniteSets, TLC

VARIABLES
    clientCache,   \* CaldavCalendarService._clientCache: key -> ClientCache
    srvCalendars,  \* the server: what findAllCalendars lists, in order
    srvObjects,    \* the server: calendar id -> (uid -> stored calendar object)
    lastOp,        \* the call being observed: its arguments, outcome and effects
    handles,       \* history: connection parameters and calendar name -> the
                   \* Calendar _getCalendar last returned, since the last clear()
    threads,       \* calls in flight: caller -> the await it is suspended at
                   \* and its local variables
    sessions,      \* the ClientCache objects created: creator -> client and calendars
    tasks,         \* the task store: task id -> task
    inflight,      \* the sync calls the effects subscribed to that have not settled
    streams,       \* the effects whose action stream is subscribed
    events,        \* the number of task events dispatched
    errLog         \* the effects whose catchError has logged a failed call

\* The variables of calls that run interleaved.
concVars == <<threads, sessions>>

\* The variables of the task-lifecycle effects.
fxVars == <<tasks, inflight, streams, events, errLog>>

vars == <<clientCache, srvCalendars, srvObjects, lastOp, handles, concVars, fxVars>>

-----------------------------------------------------------------------------
(* Optional values and finite maps. *)

None == {}

Some(v) == {v}

IsSome(o) == o # {}

Get(o) == CHOOSE v \in o : TRUE

EmptyMap == [x \in {} |-> x]

Put(m, k, v) == [x \in (DOMAIN m) \cup {k} |-> IF x = k THEN v ELSE m[x]]

Drop(m, k) == [x \in (DOMAIN m) \ {k} |-> m[x]]

\* JavaScript truthiness of a string | null value: neither null nor ''.
Truthy(o) == IsSome(o) /\ Get(o) # <<>>

-----------------------------------------------------------------------------
(* Static helpers of the service. *)

\* _isValidSettings without the isEnabled test.
IsValidSettingsAnyState(cfg) ==
    /\ Truthy(cfg.caldavUrl) /\ Truthy(cfg.calendarName)
    /\ Truthy(cfg.username) /\ Truthy(cfg.password)

IsValidSettings(cfg) ==
    /\ cfg.isEnabled
    /\ Truthy(cfg.caldavUrl) /\ Len(Get(cfg.caldavUrl)) > 0
    /\ Truthy(cfg.calendarName) /\ Len(Get(cfg.calendarName)) > 0
    /\ Truthy(cfg.username) /\ Len(Get(cfg.username)) > 0
    /\ Truthy(cfg.password) /\ Len(Get(cfg.password)) > 0

\* The position of the last "/" of url, 0 when it has none (lastIndexOf + 1).
LastSlash(url) ==
    LET at == {i \in 1..Len(url) : url[i] = "/"}
    IN  IF at = {} THEN 0 ELSE CHOOSE i \in at : \A j \in at : j <= i

GetCalendarUriFromUrl(url) ==
    LET u == IF Len(url) > 0 /\ url[Len(url)] = "/"
             THEN SubSeq(url, 1, Len(url) - 1)
             ELSE url
    IN  SubSeq(u, LastSlash(u) + 1, Len(u))

\* cal.displayname || _getCalendarUriFromUrl(cal.url)
CalendarName(cal) ==
    IF Truthy(cal.displayname) THEN Get(cal.displayname)
    ELSE GetCalendarUriFromUrl(cal.url)

GenerateUid(uuid) == <<"sp-">> \o uuid

\* A string | null value inside a template literal: null prints as "null".
Str(o) == IF IsSome(o) THEN Get(o) ELSE <<"null">>

\* `${cfg.caldavUrl}|${cfg.username}|${cfg.password}`
ClientKey(cfg) ==
    Str(cfg.caldavUrl) \o <<"|">> \o Str(cfg.username) \o <<"|">> \o Str(cfg.password)

-----------------------------------------------------------------------------
(* Notifications, errors and the network faults one call can meet.          *)
(*                                                                         *)
(* A call issues each kind of request at most once and stops at the first  *)
(* failure, so the network's behaviour during one call is one scenario:    *)
(*   none         every request succeeds                                   *)
(*   connectFail  client.connect rejects                                   *)
(*   noHomes      connect succeeds, the principal has no calendar home     *)
(*   listFail     findAllCalendars rejects                                 *)
(*   queryFail    calendarQuery rejects                                    *)
(*   writeFail    createVObject / update / delete rejects                  *)
(*   noCap        the located object carries no update / delete method     *)
(***************************************************************************)

Faults == {"none", "connectFail", "noHomes", "listFail", "queryFail", "writeFail", "noCap"}

\* The scenarios a create verb can meet: it issues no query.
CreateFaults == Faults \ {"queryFail", "noCap"}

\* The scenarios the tester can meet: it issues a connect and a listing.
TestFaults == {"none", "connectFail", "noHomes", "listFail"}

Note(type, msg) == [type |-> type, msg |-> msg]

\* One entry of a call's trace: a request the call issued, and whether the
\* network answered it.  The tester's cache clear is recorded the same way.
Sent(req) == [req |-> req, ok |-> TRUE]

Rejected(req) == [req |-> req, ok |-> FALSE]

\* A handler that opens the notification and lets the call go on as answered.
HandleNetErrSilent == [note |-> Note("ERROR", "ERR_NETWORK"), err |-> "ok"]

\* _handleNetErr: the snack it opens and the error it throws.
HandleNetErr == [note |-> Note("ERROR", "ERR_NETWORK"), err |-> "NetworkError"]

\* _checkSettings: the snack it opens and the error it throws on invalid settings.
CheckSettings(cfg) ==
    IF IsValidSettings(cfg)
    THEN [ok |-> TRUE, err |-> "", notes |-> <<>>]
    ELSE [ok |-> FALSE, err |-> "NotConfigured",
          notes |-> <<Note("ERROR", "ERR_NOT_CONFIGURED")>>]

\* new DavClient(...) after connect(): what the handshake left in the client.
NewClient(fault) ==
    [connected |-> fault # "connectFail", homes |-> fault # "noHomes"]

\* connect() whose rejection is swallowed: the session is stored anyway.
ConnectRejectedNever(client) == FALSE

\* A lookup that never finds the calendar in the session's map.
HasCalendarNever(calendars, resource) == FALSE

\* this._clientCache.has(clientKey)
HasSession(cache, key) == key \in DOMAIN cache

\* connect() rejected: the .catch hands the error to _handleNetErr, which throws.
ConnectRejected(client) == ~client.connected

(* _getClient: the settings check, the cache lookup by key, else a new     *)
(* client whose connect() must succeed before the session is stored.  The  *)
(* result: ok/err, the cache afterwards, the requests issued and the       *)
(* snacks opened.                                                          *)
GetClient(cache, cfg, fault) ==
    LET chk == CheckSettings(cfg)
        key == ClientKey(cfg)
        client == NewClient(fault)
    IN  IF ~chk.ok
        THEN [ok |-> FALSE, err |-> chk.err, cache |-> cache, trace |-> <<>>,
              notes |-> chk.notes]
        ELSE IF HasSession(cache, key)
        THEN [ok |-> TRUE, err |-> "", cache |-> cache, trace |-> <<>>,
              notes |-> <<>>]
        ELSE IF ConnectRejected(client)
        THEN [ok |-> FALSE, err |-> HandleNetErr.err, cache |-> cache,
              trace |-> <<Rejected("connect")>>, notes |-> <<HandleNetErr.note>>]
        ELSE [ok |-> TRUE, err |-> "",
              cache |-> Put(cache, key, [client |-> client, calendars |-> EmptyMap]),
              trace |-> <<Sent("connect")>>, notes |-> <<>>]

\* A find that returns the last listed calendar of that name.
FindCalendarLast(listing, resource) ==
    LET at == {i \in 1..Len(listing) : CalendarName(listing[i]) = resource}
    IN  IF at = {} THEN None
        ELSE Some(listing[CHOOSE i \in at : \A j \in at : j <= i])

\* A find that compares the display names only.
FindCalendarByDisplayName(listing, resource) ==
    LET at == {i \in 1..Len(listing) : listing[i].displayname = Some(resource)}
    IN  IF at = {} THEN None
        ELSE Some(listing[CHOOSE i \in at : \A j \in at : i <= j])

\* calendars.find(...): the first listed calendar whose name is `resource`.
FindCalendar(listing, resource) ==
    LET at == {i \in 1..Len(listing) : CalendarName(listing[i]) = resource}
    IN  IF at = {} THEN None
        ELSE Some(listing[CHOOSE i \in at : \A j \in at : i <= j])

\* clientCache.calendars.has(resource)
HasCalendar(calendars, resource) == resource \in DOMAIN calendars

\* A get that returns a calendar of the session whatever the name asked for.
SessionCalendarAny(calendars, resource) ==
    calendars[CHOOSE r \in DOMAIN calendars : TRUE]

\* clientCache.calendars.get(resource)
SessionCalendar(calendars, resource) == calendars[resource]

(* _getCalendar once _getClient has returned gc: the session's calendar of *)
(* that name if it is cached, else a listing of the first calendar home    *)
(* and the first calendar whose name matches.  A session without a         *)
(* calendar home makes calendarHomes[0].findAllCalendars a TypeError,      *)
(* thrown as it is.                                                        *)
GetCalendarWith(gc, cfg, fault, listing) ==
    LET fail(err, c, tr, ns) ==
            [ok |-> FALSE, err |-> err, cache |-> c, trace |-> tr, notes |-> ns,
             cal |-> None]
    IN  IF ~gc.ok THEN fail(gc.err, gc.cache, gc.trace, gc.notes)
        ELSE
        LET key == ClientKey(cfg)
            resource == Str(cfg.calendarName)
            entry == gc.cache[key]
            found == FindCalendar(listing, resource)
        IN  IF HasCalendar(entry.calendars, resource)
            THEN [ok |-> TRUE, err |-> "", cache |-> gc.cache, trace |-> gc.trace,
                  notes |-> gc.notes, cal |-> Some(SessionCalendar(entry.calendars, resource))]
            ELSE IF ~entry.client.homes
            THEN fail("TypeError", gc.cache, gc.trace, gc.notes)
            ELSE IF fault = "listFail"
            THEN fail(HandleNetErr.err, gc.cache, Append(gc.trace, Rejected("list")),
                      Append(gc.notes, HandleNetErr.note))
            ELSE IF IsSome(found)
            THEN [ok |-> TRUE, err |-> "",
                  cache |-> [gc.cache EXCEPT ![key].calendars = Put(@, resource, Get(found))],
                  trace |-> Append(gc.trace, Sent("list")), notes |-> gc.notes,
                  cal |-> found]
            ELSE fail("CalendarNotFound", gc.cache, Append(gc.trace, Sent("list")),
                      Append(gc.notes, Note("ERROR", "CALENDAR_NOT_FOUND")))

\* _getCalendar: `await this._getClient(cfg)`, then the rest.
GetCalendar(cache, cfg, fault, listing) ==
    GetCalendarWith(GetClient(cache, cfg, fault), cfg, fault, listing)

-----------------------------------------------------------------------------
(* ICS codec: date-times, text escaping, the objects built and stored.     *)

MsPerSecond == 1000

\* The offset of the local time zone from UTC, in seconds.
TzOffsetSec == 60 * 60

\* _formatIcalDateTime: toISOString() without separators and milliseconds,
\* a UTC date-time YYYYMMDDTHHMMSSZ.
FormatIcalDateTime(timestamp) ==
    [sec |-> timestamp \div MsPerSecond, form |-> "UTC"]

\* ICAL.Time.fromJSDate(new Date(timestamp), false): the local wall-clock
\* fields of the instant, with no zone (a floating time).
IcalTimeFromJSDate(timestamp) ==
    [sec |-> (timestamp \div MsPerSecond) + TzOffsetSec, form |-> "floating"]

RECURSIVE ReplaceAll(_, _, _)
\* s.replace(/tok/g, repl)
ReplaceAll(s, tok, repl) ==
    IF s = <<>> THEN <<>>
    ELSE (IF Head(s) = tok THEN repl ELSE <<Head(s)>>) \o ReplaceAll(Tail(s), tok, repl)

\* The four replacements with the backslash replaced last.
EscapeIcalTextBackslashLast(text) ==
    ReplaceAll(ReplaceAll(ReplaceAll(ReplaceAll(text,
        ";", <<"\\", ";">>), ",", <<"\\", ",">>), "\n", <<"\\", "n">>), "\\", <<"\\", "\\">>)

\* _escapeIcalText: four replacements, the backslash first.
EscapeIcalText(text) ==
    ReplaceAll(ReplaceAll(ReplaceAll(ReplaceAll(text,
        "\\", <<"\\", "\\">>), ";", <<"\\", ";">>), ",", <<"\\", ",">>), "\n", <<"\\", "n">>)

RECURSIVE IcalUnescape(_)
\* ICAL.parse of a TEXT value: one scan, \\ \; \, \n \N are unescaped.
IcalUnescape(raw) ==
    IF raw = <<>> THEN <<>>
    ELSE IF Head(raw) = "\\" /\ Len(raw) >= 2 /\ raw[2] \in {"\\", ";", ",", "n", "N"}
    THEN <<IF raw[2] \in {"n", "N"} THEN "\n" ELSE raw[2]>> \o IcalUnescape(SubSeq(raw, 3, Len(raw)))
    ELSE <<Head(raw)>> \o IcalUnescape(Tail(raw))

RECURSIVE IcalEscape(_)
\* ICAL.stringify of a TEXT value: one scan, \ ; , and newline are escaped.
IcalEscape(text) ==
    IF text = <<>> THEN <<>>
    ELSE (IF Head(text) \in {"\\", ";", ","} THEN <<"\\", Head(text)>>
          ELSE IF Head(text) = "\n" THEN <<"\\", "n">>
          ELSE <<Head(text)>>) \o IcalEscape(Tail(text))

\* What the text of a stored object may be: an iCalendar text with the
\* component the server indexes it under, one without that component, or a
\* text that is not iCalendar.
TextForms == {"wellformed", "nocomponent", "unparseable"}

\* A calendar object with no property set.
BlankObject(uid, comp) ==
    [uid |-> uid, comp |-> comp, text |-> "wellformed", summary |-> None, description |-> None,
     dtstart |-> None, dtend |-> None, due |-> None, dtstamp |-> None,
     created |-> None, lastModified |-> None, completed |-> None,
     sequence |-> None, status |-> None, priority |-> None, percent |-> None]

\* The VEVENT _createEvent writes with SEQUENCE one instead of zero.
BuildEventSeqOne(uid, eventData, now) ==
    [BlankObject(uid, "VEVENT") EXCEPT
        !.dtstamp = Some(FormatIcalDateTime(now)),
        !.dtstart = Some(FormatIcalDateTime(eventData.start)),
        !.dtend = Some(FormatIcalDateTime(eventData.end)),
        !.summary = Some(EscapeIcalText(eventData.summary)),
        !.description = IF Truthy(eventData.description)
                        THEN Some(EscapeIcalText(Get(eventData.description)))
                        ELSE None,
        !.sequence = Some(1)]

\* The ICS text _createEvent builds: one VEVENT.
BuildEvent(uid, eventData, now) ==
    [BlankObject(uid, "VEVENT") EXCEPT
        !.dtstamp = Some(FormatIcalDateTime(now)),
        !.dtstart = Some(FormatIcalDateTime(eventData.start)),
        !.dtend = Some(FormatIcalDateTime(eventData.end)),
        !.summary = Some(EscapeIcalText(eventData.summary)),
        !.description = IF Truthy(eventData.description)
                        THEN Some(EscapeIcalText(Get(eventData.description)))
                        ELSE None,
        !.sequence = Some(0)]

\* The ICS text _createTodo builds: one VTODO.
BuildTodo(uid, todoData, now) ==
    [BlankObject(uid, "VTODO") EXCEPT
        !.dtstamp = Some(FormatIcalDateTime(now)),
        !.created = Some(FormatIcalDateTime(now)),
        !.summary = Some(EscapeIcalText(todoData.summary)),
        !.status = IF IsSome(todoData.status) THEN todoData.status
                   ELSE Some("NEEDS-ACTION"),
        !.description = IF Truthy(todoData.description)
                        THEN Some(EscapeIcalText(Get(todoData.description)))
                        ELSE None,
        !.priority = todoData.priority,
        !.due = IF IsSome(todoData.dueDate)
                THEN Some(FormatIcalDateTime(Get(todoData.dueDate)))
                ELSE None,
        !.percent = todoData.percentComplete,
        !.sequence = Some(0)]

\* The text of a property as it is stored.
TextValueRaw(raw) == raw

\* getFirstPropertyValue of a TEXT property: its unescaped value, or null.
TextValue(raw) == IF IsSome(raw) THEN Some(IcalUnescape(Get(raw))) ELSE None

\* The increment that keeps a present SEQUENCE as it is.
NextSequenceKeep(sequence) ==
    IF IsSome(sequence) /\ Get(sequence) # 0 THEN Get(sequence) ELSE 1

\* sequence ? parseInt(sequence) + 1 : 1
NextSequence(sequence) ==
    IF IsSome(sequence) /\ Get(sequence) # 0 THEN Get(sequence) + 1 ELSE 1

-----------------------------------------------------------------------------
(* Remote object locator and the sync verbs.                               *)

\* Whether text occurs in s as a contiguous run (CalDAV text-match).
Contains(s, text) ==
    \E i \in 0..(Len(s) - Len(text)) : SubSeq(s, i + 1, i + Len(text)) = text

\* The uids of the objects a calendar-query for comp and uid text matches.
QueryMatches(stored, uid, comp) ==
    {u \in DOMAIN stored : stored[u].comp = comp /\ Contains(u, uid)}

(* _findEventByUid / _findTodoByUid followed by [0]: the first object of   *)
(* the server's answer.  The server chooses the order; `first` is the uid  *)
(* it lists first when that uid is among the matches.                      *)
FirstMatch(stored, uid, comp, first) ==
    LET m == QueryMatches(stored, uid, comp)
    IN  IF m = {} THEN None
        ELSE IF first \in m THEN Some(stored[first])
        ELSE Some(stored[CHOOSE u \in m : TRUE])

Log(lvl, msg) == [lvl |-> lvl, msg |-> msg]

\* A console line that carries the configuration as it is.
ConsoleCfgPlain(msg, cfg) == [lvl |-> "console", msg |-> msg, cfg |-> cfg]

\* console.log('CalDAV: Creating ...', { cfg: { ...cfg, password: '***' }, ... })
ConsoleCfg(msg, cfg) ==
    [lvl |-> "console", msg |-> msg, cfg |-> [cfg EXCEPT !.password = Some(<<"***">>)]]

\* What one call did: its result, the value returned, the cache and the
\* server's objects afterwards, the requests issued in order, the snacks
\* opened, the log lines, the calendar resolved, the object located, and the
\* object sent in the write request.
Out(res, ret, cache, objs, trace, notes, logs, cal, pre, sent) ==
    [res |-> res, ret |-> ret, cache |-> cache, objs |-> objs, trace |-> trace,
     notes |-> notes, logs |-> logs, cal |-> cal, pre |-> pre, sent |-> sent]

ReadOnlyNote == Note("ERROR", "CALENDAR_READ_ONLY")

\* `if (calendar.readOnly)` with the check left out.
ReadOnlyNever(calendar) == FALSE

\* if (calendar.readOnly)
ReadOnly(calendar) == calendar.readOnly

\* The warning of a locate query without a match, left out.
NotFoundLogNone(what, verb) == <<>>

\* Log.warn('CalDAV Calendar: Event not found for update', uid)
NotFoundLog(what, verb) == <<Log("warn", what \o " not found for " \o verb)>>

\* _createEvent once _getCalendar has returned gc.
CreateEventWith(gc, objs, cfg, eventData, fault, now, uuid) ==
    LET logs0 == <<ConsoleCfg("Creating event", cfg)>>
    IN  IF ~gc.ok
        THEN Out(gc.err, None, gc.cache, objs, gc.trace, gc.notes, logs0, None, None, None)
        ELSE
        LET cal == Get(gc.cal)
            logs1 == Append(logs0, Log("console", "Got calendar"))
            uid == IF eventData.uid # <<>> THEN eventData.uid ELSE GenerateUid(uuid)
            obj == BuildEvent(uid, eventData, now)
        IN  IF ReadOnly(cal)
            THEN Out("CalendarReadOnly", None, gc.cache, objs, gc.trace,
                     Append(gc.notes, ReadOnlyNote), logs1, gc.cal, None, None)
            ELSE IF fault = "writeFail"
            THEN Out(HandleNetErr.err, None, gc.cache, objs,
                     Append(gc.trace, Rejected("create")),
                     Append(gc.notes, HandleNetErr.note), logs1, gc.cal, None, Some(obj))
            ELSE Out("ok", Some(uid), gc.cache, [objs EXCEPT ![cal.id] = Put(@, uid, obj)],
                     Append(gc.trace, Sent("create")), gc.notes,
                     Append(logs1, Log("log", "Created event")), gc.cal, None, Some(obj))

\* _createEvent
CreateEvent(cache, objs, listing, cfg, eventData, fault, now, uuid) ==
    CreateEventWith(GetCalendar(cache, cfg, fault, listing), objs, cfg, eventData,
                    fault, now, uuid)

\* _createTodo once _getCalendar has returned gc.
CreateTodoWith(gc, objs, cfg, todoData, fault, now, uuid) ==
    LET logs0 == <<ConsoleCfg("Creating VTODO", cfg)>>
    IN  IF ~gc.ok
        THEN Out(gc.err, None, gc.cache, objs, gc.trace, gc.notes, logs0, None, None, None)
        ELSE
        LET cal == Get(gc.cal)
            logs1 == Append(logs0, Log("console", "Got calendar for VTODO"))
            uid == IF todoData.uid # <<>> THEN todoData.uid ELSE GenerateUid(uuid)
            obj == BuildTodo(uid, todoData, now)
        IN  IF ReadOnly(cal)
            THEN Out("CalendarReadOnly", None, gc.cache, objs, gc.trace,
                     Append(gc.notes, ReadOnlyNote), logs1, gc.cal, None, None)
            ELSE IF fault = "writeFail"
            THEN Out(HandleNetErr.err, None, gc.cache, objs,
                     Append(gc.trace, Rejected("create")),
                     Append(gc.notes, HandleNetErr.note), logs1, gc.cal, None, Some(obj))
            ELSE Out("ok", Some(uid), gc.cache, [objs EXCEPT ![cal.id] = Put(@, uid, obj)],
                     Append(gc.trace, Sent("create")), gc.notes,
                     Append(logs1, Log("log", "Created VTODO")), gc.cal, None, Some(obj))

\* _createTodo
CreateTodo(cache, objs, listing, cfg, todoData, fault, now, uuid) ==
    CreateTodoWith(GetCalendar(cache, cfg, fault, listing), objs, cfg, todoData,
                   fault, now, uuid)

\* A comparison that takes every provided summary for a new one.
SummaryDiffersAlways(summary, oldSummary) == TRUE

\* eventData.summary !== oldSummary
SummaryDiffers(summary, oldSummary) == summary # oldSummary

\* A test that takes a start for a change and nothing else.
FieldsProvidedStartOnly(eventData) == IsSome(eventData.start)

\* eventData.start, .end or .description !== undefined: each sets changeObserved.
FieldsProvided(eventData) ==
    IsSome(eventData.start) \/ IsSome(eventData.end) \/ IsSome(eventData.description)

\* The changes of an update that writes the summary and the counters and
\* leaves the description out.
ApplyEventChangesDropRest(vevent, eventData, now) ==
    [changeObserved |-> TRUE,
     obj |-> [vevent EXCEPT
                 !.summary = IF IsSome(eventData.summary)
                             THEN Some(IcalEscape(Get(eventData.summary))) ELSE @,
                 !.description = None,
                 !.lastModified = Some(IcalTimeFromJSDate(now)),
                 !.dtstamp = Some(IcalTimeFromJSDate(now)),
                 !.sequence = Some(NextSequence(vevent.sequence))]]

(* The property changes of _updateEvent (lines 354-391) on the parsed      *)
(* VEVENT: the summary only when it differs, start, end and description    *)
(* whenever they are provided; then LAST-MODIFIED, DTSTAMP and SEQUENCE.   *)
ApplyEventChanges(vevent, eventData, now) ==
    LET summaryChanged == IsSome(eventData.summary)
                          /\ SummaryDiffers(eventData.summary, TextValue(vevent.summary))
        changeObserved == summaryChanged \/ FieldsProvided(eventData)
        changed ==
            [vevent EXCEPT
                !.summary = IF summaryChanged
                            THEN Some(IcalEscape(Get(eventData.summary))) ELSE @,
                !.dtstart = IF IsSome(eventData.start)
                            THEN Some(IcalTimeFromJSDate(Get(eventData.start))) ELSE @,
                !.dtend = IF IsSome(eventData.end)
                          THEN Some(IcalTimeFromJSDate(Get(eventData.end))) ELSE @,
                !.description = IF IsSome(eventData.description)
                                THEN Some(IcalEscape(Get(eventData.description))) ELSE @,
                !.lastModified = Some(IcalTimeFromJSDate(now)),
                !.dtstamp = Some(IcalTimeFromJSDate(now)),
                !.sequence = Some(NextSequence(vevent.sequence))]
    IN  [changeObserved |-> changeObserved, obj |-> changed]

\* A status change that never stamps the completion.
CompletedStampNever(status, now, old) == old

\* if (todoData.status === 'COMPLETED') vtodo.updatePropertyWithValue('completed', now)
CompletedStamp(status, now, old) ==
    IF status = Some("COMPLETED") THEN Some(IcalTimeFromJSDate(now)) ELSE old

(* The property changes of _updateTodo (lines 525-575) on the parsed       *)
(* VTODO.                                                                  *)
ApplyTodoChanges(vtodo, todoData, now) ==
    LET summaryChanged == IsSome(todoData.summary)
                          /\ SummaryDiffers(todoData.summary, TextValue(vtodo.summary))
        changeObserved == \/ summaryChanged
                          \/ IsSome(todoData.description)
                          \/ IsSome(todoData.status)
                          \/ IsSome(todoData.percentComplete)
                          \/ IsSome(todoData.priority)
                          \/ IsSome(todoData.dueDate)
        changed ==
            [vtodo EXCEPT
                !.summary = IF summaryChanged
                            THEN Some(IcalEscape(Get(todoData.summary))) ELSE @,
                !.description = IF IsSome(todoData.description)
                                THEN Some(IcalEscape(Get(todoData.description))) ELSE @,
                !.status = IF IsSome(todoData.status) THEN todoData.status ELSE @,
                !.completed = CompletedStamp(todoData.status, now, @),
                !.percent = IF IsSome(todoData.percentComplete)
                            THEN todoData.percentComplete ELSE @,
                !.priority = IF IsSome(todoData.priority) THEN todoData.priority ELSE @,
                !.due = IF IsSome(todoData.dueDate)
                        THEN Some(IcalTimeFromJSDate(Get(todoData.dueDate))) ELSE @,
                !.lastModified = Some(IcalTimeFromJSDate(now)),
                !.dtstamp = Some(IcalTimeFromJSDate(now)),
                !.sequence = Some(NextSequence(vtodo.sequence))]
    IN  [changeObserved |-> changeObserved, obj |-> changed]

\* ICAL.parse(event.data) throws a ParserError on a text that is not iCalendar.
ParseThrows(object) == object.text = "unparseable"

\* !comp.getFirstSubcomponent('vevent')
NoSubcomponent(object) == object.text = "nocomponent"

(* _updateEvent and _updateTodo share their shape.  Once _getCalendar has  *)
(* returned gc: reject a read-only calendar, locate by uid, return on no   *)
(* match, parse the first match (the parser's exception is not caught),    *)
(* return when it has no component of the kind, apply the changes, return  *)
(* when none was observed, else write the object back with its update      *)
(* method, if it has one.  The component, the changes applied and the log  *)
(* texts are what differs.                                                 *)
UpdateWith(gc, objs, cfg, uid, data, fault, now, first, comp, what) ==
        IF ~gc.ok
        THEN Out(gc.err, None, gc.cache, objs, gc.trace, gc.notes, <<>>, None, None, None)
        ELSE
        LET cal == Get(gc.cal)
            trq == Append(gc.trace, Sent("query"))
            found == FirstMatch(objs[cal.id], uid, comp, first)
            ch == IF comp = "VEVENT" THEN ApplyEventChanges(Get(found), data, now)
                  ELSE ApplyTodoChanges(Get(found), data, now)
        IN  IF ReadOnly(cal)
            THEN Out("CalendarReadOnly", None, gc.cache, objs, gc.trace,
                     Append(gc.notes, ReadOnlyNote), <<>>, gc.cal, None, None)
            ELSE IF fault = "queryFail"
            THEN Out("RequestError", None, gc.cache, objs,
                     Append(gc.trace, Rejected("query")), gc.notes, <<>>,
                     gc.cal, None, None)
            ELSE IF found = None
            THEN Out("ok", None, gc.cache, objs, trq, gc.notes,
                     NotFoundLog(what, "update"), gc.cal, None, None)
            ELSE IF ParseThrows(Get(found))
            THEN Out("ParserError", None, gc.cache, objs, trq, gc.notes, <<>>,
                     gc.cal, found, None)
            ELSE IF NoSubcomponent(Get(found))
            THEN Out("ok", None, gc.cache, objs, trq, gc.notes,
                     <<Log("err", "No " \o what \o " found")>>, gc.cal, found, None)
            ELSE IF ~ch.changeObserved
            THEN Out("ok", None, gc.cache, objs, trq, gc.notes, <<>>, gc.cal, found, None)
            ELSE IF fault = "noCap"
            THEN Out("ok", None, gc.cache, objs, trq, gc.notes,
                     <<Log("log", "Updated " \o what)>>, gc.cal, found, None)
            ELSE IF fault = "writeFail"
            THEN Out(HandleNetErr.err, None, gc.cache, objs,
                     Append(trq, Rejected("update")),
                     Append(gc.notes, HandleNetErr.note), <<>>, gc.cal, found, Some(ch.obj))
            ELSE Out("ok", None, gc.cache,
                     [objs EXCEPT ![cal.id] = Put(@, Get(found).uid, ch.obj)],
                     Append(trq, Sent("update")), gc.notes,
                     <<Log("log", "Updated " \o what)>>, gc.cal, found, Some(ch.obj))

Update(cache, objs, listing, cfg, uid, data, fault, now, first, comp, what) ==
    UpdateWith(GetCalendar(cache, cfg, fault, listing), objs, cfg, uid, data, fault,
               now, first, comp, what)

\* _updateEvent
UpdateEvent(cache, objs, listing, cfg, uid, eventData, fault, now, first) ==
    Update(cache, objs, listing, cfg, uid, eventData, fault, now, first, "VEVENT", "event")

\* _updateTodo
UpdateTodo(cache, objs, listing, cfg, uid, todoData, fault, now, first) ==
    Update(cache, objs, listing, cfg, uid, todoData, fault, now, first, "VTODO", "VTODO")

\* The payload of completeTodo$.
CompletePayload ==
    [summary |-> None, description |-> None, priority |-> None, dueDate |-> None,
     percentComplete |-> Some(100), status |-> Some("COMPLETED")]

\* A completion that sets the status alone.
CompleteTodoStatusOnly(cache, objs, listing, cfg, uid, fault, now, first) ==
    UpdateTodo(cache, objs, listing, cfg, uid,
               [CompletePayload EXCEPT !.percentComplete = None], fault, now, first)

\* completeTodo$
CompleteTodo(cache, objs, listing, cfg, uid, fault, now, first) ==
    UpdateTodo(cache, objs, listing, cfg, uid, CompletePayload, fault, now, first)

(* _deleteEvent and _deleteTodo share their shape.  Once _getCalendar has  *)
(* returned gc (no read-only test): locate by uid, return on no match,     *)
(* else delete with the object's delete method, if it has one.             *)
DeleteWith(gc, objs, cfg, uid, fault, first, comp, what) ==
        IF ~gc.ok
        THEN Out(gc.err, None, gc.cache, objs, gc.trace, gc.notes, <<>>, None, None, None)
        ELSE
        LET cal == Get(gc.cal)
            trq == Append(gc.trace, Sent("query"))
            found == FirstMatch(objs[cal.id], uid, comp, first)
        IN  IF fault = "queryFail"
            THEN Out("RequestError", None, gc.cache, objs,
                     Append(gc.trace, Rejected("query")), gc.notes, <<>>,
                     gc.cal, None, None)
            ELSE IF found = None
            THEN Out("ok", None, gc.cache, objs, trq, gc.notes,
                     NotFoundLog(what, "deletion"), gc.cal, None, None)
            ELSE IF fault = "noCap"
            THEN Out("ok", None, gc.cache, objs, trq, gc.notes,
                     <<Log("log", "Deleted " \o what)>>, gc.cal, found, None)
            ELSE IF fault = "writeFail"
            THEN Out(HandleNetErr.err, None, gc.cache, objs,
                     Append(trq, Rejected("delete")),
                     Append(gc.notes, HandleNetErr.note), <<>>, gc.cal, found, None)
            ELSE Out("ok", None, gc.cache,
                     [objs EXCEPT ![cal.id] = Drop(@, Get(found).uid)],
                     Append(trq, Sent("delete")), gc.notes,
                     <<Log("log", "Deleted " \o what)>>, gc.cal, found, None)

Delete(cache, objs, listing, cfg, uid, fault, first, comp, what) ==
    DeleteWith(GetCalendar(cache, cfg, fault, listing), objs, cfg, uid, fault, first,
               comp, what)

\* A deleteEvent that rejects a read-only calendar as the writes do.
DeleteEventChecked(cache, objs, listing, cfg, uid, fault, first) ==
    LET checked(gc) ==
            IF gc.ok /\ ReadOnly(Get(gc.cal))
            THEN Out("CalendarReadOnly", None, gc.cache, objs, gc.trace,
                     Append(gc.notes, ReadOnlyNote), <<>>, gc.cal, None, None)
            ELSE DeleteWith(gc, objs, cfg, uid, fault, first, "VEVENT", "event")
    IN  checked(GetCalendar(cache, cfg, fault, listing))

\* _deleteEvent
DeleteEvent(cache, objs, listing, cfg, uid, fault, first) ==
    Delete(cache, objs, listing, cfg, uid, fault, first, "VEVENT", "event")

\* _deleteTodo
DeleteTodo(cache, objs, listing, cfg, uid, fault, first) ==
    Delete(cache, objs, listing, cfg, uid, fault, first, "VTODO", "VTODO")

-----------------------------------------------------------------------------
(* Connection tester. *)

RECURSIVE Join(_, _)
\* names.join(sep)
Join(names, sep) ==
    IF names = <<>> THEN <<>>
    ELSE IF Len(names) = 1 THEN names[1]
    ELSE names[1] \o <<sep>> \o Join(Tail(names), sep)

\* `Calendar "${targetCalendar}" not found. Available: ${calendarNames.join(', ')}`
NotFoundMessage(target, names) ==
    <<"Calendar \"">> \o Str(target) \o <<"\" not found. Available: ">> \o Join(names, ", ")

\* A clear() that leaves the cache as it is.
ClearCacheKeep(cache) == cache

\* this._clientCache.clear()
ClearCache(cache) == EmptyMap

\* The test that finds every configured name among the listed ones.
CalendarFoundAlways(targetCalendar, calendarNames) == TRUE

\* targetCalendar ? calendarNames.includes(targetCalendar) : true
CalendarFound(targetCalendar, calendarNames) ==
    IF Truthy(targetCalendar)
    THEN \E i \in 1..Len(calendarNames) : calendarNames[i] = Get(targetCalendar)
    ELSE TRUE

(* testConnection: clear the cache, connect with a client of its own, list *)
(* the calendars of the first calendar home, look for the configured name. *)
(* Every failure is caught and returned.  The trace starts with the clear. *)
TestConnection(cache, cfg, fault, listing) ==
    LET names == [i \in 1..Len(listing) |-> CalendarName(listing[i])]
        result(tr, ret) ==
            Out("ok", Some(ret), ClearCache(cache), <<>>, <<Sent("clear")>> \o tr,
                <<>>, <<>>, None, None, None)
    IN  IF fault = "connectFail"
        THEN result(<<Rejected("connect")>>,
                    [success |-> FALSE, calendars |-> None, error |-> Some(<<"connect failed">>)])
        ELSE IF fault = "noHomes"
        THEN result(<<Sent("connect")>>,
                    [success |-> FALSE, calendars |-> None, error |-> Some(<<"No calendar home found">>)])
        ELSE IF fault = "listFail"
        THEN result(<<Sent("connect"), Rejected("list")>>,
                    [success |-> FALSE, calendars |-> None, error |-> Some(<<"listing failed">>)])
        ELSE result(<<Sent("connect"), Sent("list")>>,
                    [success |-> TRUE, calendars |-> Some(names),
                     error |-> IF CalendarFound(cfg.calendarName, names) THEN None
                               ELSE Some(NotFoundMessage(cfg.calendarName, names))])

-----------------------------------------------------------------------------
(* The inputs of the model. *)

\* The largest SEQUENCE an update may store.
MaxSeq == 2

BaseCfg ==
    [isEnabled |-> TRUE, caldavUrl |-> Some(<<"srv">>), calendarName |-> Some(<<"Work">>),
     username |-> Some(<<"bob">>), password |-> Some(<<"pw">>), syncTodos |-> FALSE]

ValidCfgs ==
    { BaseCfg,
      [BaseCfg EXCEPT !.calendarName = Some(<<"Home">>)],
      [BaseCfg EXCEPT !.calendarName = Some(<<"Nope">>)],
      [BaseCfg EXCEPT !.password = Some(<<"pw2">>), !.syncTodos = TRUE] }

InvalidCfgs ==
    { [BaseCfg EXCEPT !.isEnabled = FALSE],
      [BaseCfg EXCEPT !.caldavUrl = None],
      [BaseCfg EXCEPT !.calendarName = Some(<<>>)],
      [BaseCfg EXCEPT !.username = None],
      [BaseCfg EXCEPT !.password = Some(<<>>)] }

CfgSet == ValidCfgs \cup InvalidCfgs

\* What the tester may be given besides: a configuration without a calendar name.
TestCfgs == CfgSet \cup {[BaseCfg EXCEPT !.calendarName = None]}

Uid1 == <<"sp-task-", "1">>

Uid10 == <<"sp-task-", "1", "0">>

\* What crypto.randomUUID() returns.
Uuid == <<"7f3a">>

TextA == <<"a">>

TextB == <<"b", ";", "c">>

Time1 == 1700000 * MsPerSecond

Time2 == Time1 + 3600500

NowSet == {Time1 + 100000}

\* The calendars of the server: two are named Work, the writable one listed
\* first or second; one has no display name and is named by its URL.
CalWork == [id |-> 1, displayname |-> Some(<<"Work">>),
            url |-> <<"/", "dav", "/", "work", "/">>, readOnly |-> FALSE]

CalHome == [id |-> 2, displayname |-> None,
            url |-> <<"/", "dav", "/", "Home">>, readOnly |-> TRUE]

CalShared == [id |-> 3, displayname |-> Some(<<"Work">>),
              url |-> <<"/", "dav", "/", "shared", "/">>, readOnly |-> TRUE]

Listings == { <<CalWork, CalHome, CalShared>>, <<CalShared, CalWork, CalHome>> }

CalIds == {1, 2, 3}

\* CalendarEventData
EventData(uid, summary, description) ==
    [uid |-> uid, summary |-> summary, start |-> Time1, end |-> Time2,
     description |-> description]

\* Partial<CalendarEventData>: a field is provided or undefined.
EventPartial(summary, start, end, description) ==
    [summary |-> summary, start |-> start, end |-> end, description |-> description]

\* CalendarTodoData
TodoData(uid, summary, status) ==
    [uid |-> uid, summary |-> summary, description |-> None, priority |-> None,
     dueDate |-> None, percentComplete |-> None, status |-> status]

\* Partial<CalendarTodoData>
TodoPartial(summary, description, status, percentComplete, priority, dueDate) ==
    [summary |-> summary, description |-> description, priority |-> priority,
     dueDate |-> dueDate, percentComplete |-> percentComplete, status |-> status]

\* An object another client stored: no SEQUENCE, no DTSTAMP.
ForeignObject(uid, comp) ==
    [BlankObject(uid, comp) EXCEPT !.summary = Some(EscapeIcalText(TextA))]

\* A resource of another client whose text has that form.
ForeignText(uid, comp, form) ==
    IF form = "wellformed" THEN ForeignObject(uid, comp)
    ELSE [BlankObject(uid, comp) EXCEPT !.text = form]

-----------------------------------------------------------------------------
(* The state machine: one action per public operation of the service, the  *)
(* caller taking the result, and the server changing on its own.           *)

Idle == [verb |-> "idle"]

\* The connection parameters and the calendar name of a configuration.
Params(cfg) ==
    <<Str(cfg.caldavUrl), Str(cfg.username), Str(cfg.password), Str(cfg.calendarName)>>

\* The record of a call: its arguments, the network scenario it met, the
\* session keys cached when it began, and its outcome.
Op(verb, cfg, uid, data, now, fault, o) ==
    [verb |-> verb, cfg |-> cfg, uid |-> uid, data |-> data, now |-> now,
     fault |-> fault, had |-> DOMAIN clientCache,
     res |-> o.res, ret |-> o.ret, trace |-> o.trace, notes |-> o.notes,
     logs |-> o.logs, cal |-> o.cal, pre |-> o.pre, sent |-> o.sent]

\* No stored object carries a SEQUENCE above MaxSeq.
WithinSeq(objs) ==
    \A c \in DOMAIN objs : \A u \in DOMAIN objs[c] :
        IsSome(objs[c][u].sequence) => Get(objs[c][u].sequence) <= MaxSeq

\* No calendar of the server stores an object with that uid.
Unused(uid) == \A c \in CalIds : uid \notin DOMAIN srvObjects[c]

\* The effects of a sync verb's outcome o.
Apply(verb, cfg, uid, data, now, fault, o) ==
    /\ WithinSeq(o.objs)
    /\ clientCache' = o.cache
    /\ srvObjects' = o.objs
    /\ lastOp' = Op(verb, cfg, uid, data, now, fault, o)
    /\ handles' = IF IsSome(o.cal) THEN Put(handles, Params(cfg), Get(o.cal)) ELSE handles
    /\ UNCHANGED <<srvCalendars, concVars, fxVars>>

\* createEvent$ for a task that has no calendar object yet.
CallCreateEvent(cfgs, datas, faults) ==
    /\ lastOp = Idle
    /\ \E cfg \in cfgs, data \in datas, fault \in faults, now \in NowSet :
        /\ Unused(IF data.uid # <<>> THEN data.uid ELSE GenerateUid(Uuid))
        /\ \E o \in {CreateEvent(clientCache, srvObjects, srvCalendars, cfg, data,
                                 fault, now, Uuid)} :
              Apply("createEvent", cfg, data.uid, Some(data), now, fault, o)

\* updateEvent$
CallUpdateEvent(cfgs, uids, datas, faults, firsts) ==
    /\ lastOp = Idle
    /\ \E cfg \in cfgs, uid \in uids, data \in datas, fault \in faults, now \in NowSet,
          first \in firsts :
          \E o \in {UpdateEvent(clientCache, srvObjects, srvCalendars, cfg, uid, data,
                                fault, now, first)} :
              Apply("updateEvent", cfg, uid, Some(data), now, fault, o)

\* deleteEvent$
CallDeleteEvent(cfgs, uids, faults, firsts) ==
    /\ lastOp = Idle
    /\ \E cfg \in cfgs, uid \in uids, fault \in faults, now \in NowSet, first \in firsts :
          \E o \in {DeleteEvent(clientCache, srvObjects, srvCalendars, cfg, uid, fault,
                                first)} :
              Apply("deleteEvent", cfg, uid, None, now, fault, o)

\* createTodo$ for a task that has no calendar object yet.
CallCreateTodo(cfgs, datas, faults) ==
    /\ lastOp = Idle
    /\ \E cfg \in cfgs, data \in datas, fault \in faults, now \in NowSet :
        /\ Unused(IF data.uid # <<>> THEN data.uid ELSE GenerateUid(Uuid))
        /\ \E o \in {CreateTodo(clientCache, srvObjects, srvCalendars, cfg, data,
                                fault, now, Uuid)} :
              Apply("createTodo", cfg, data.uid, Some(data), now, fault, o)

\* updateTodo$
CallUpdateTodo(cfgs, uids, datas, faults, firsts) ==
    /\ lastOp = Idle
    /\ \E cfg \in cfgs, uid \in uids, data \in datas, fault \in faults, now \in NowSet,
          first \in firsts :
          \E o \in {UpdateTodo(clientCache, srvObjects, srvCalendars, cfg, uid, data,
                               fault, now, first)} :
              Apply("updateTodo", cfg, uid, Some(data), now, fault, o)

\* completeTodo$
CallCompleteTodo(cfgs, uids, faults, firsts) ==
    /\ lastOp = Idle
    /\ \E cfg \in cfgs, uid \in uids, fault \in faults, now \in NowSet, first \in firsts :
          \E o \in {CompleteTodo(clientCache, srvObjects, srvCalendars, cfg, uid, fault,
                                 now, first)} :
              Apply("completeTodo", cfg, uid, Some(CompletePayload), now, fault, o)

\* deleteTodo$
CallDeleteTodo(cfgs, uids, faults, firsts) ==
    /\ lastOp = Idle
    /\ \E cfg \in cfgs, uid \in uids, fault \in faults, now \in NowSet, first \in firsts :
          \E o \in {DeleteTodo(clientCache, srvObjects, srvCalendars, cfg, uid, fault,
                               first)} :
              Apply("deleteTodo", cfg, uid, None, now, fault, o)

\* testConnection
CallTestConnection(cfgs, faults) ==
    /\ lastOp = Idle
    /\ \E cfg \in cfgs, fault \in faults, now \in NowSet :
          \E o \in {TestConnection(clientCache, cfg, fault, srvCalendars)} :
              /\ clientCache' = o.cache
              /\ lastOp' = Op("testConnection", cfg, <<>>, None, now, fault, o)
              /\ handles' = EmptyMap
              /\ UNCHANGED <<srvCalendars, srvObjects, concVars, fxVars>>

\* The caller takes the result of the call.
Return ==
    /\ lastOp # Idle
    /\ lastOp' = Idle
    /\ UNCHANGED <<clientCache, srvCalendars, srvObjects, handles, concVars, fxVars>>

\* The server's calendars are reordered.
ServerReconfigure ==
    /\ lastOp = Idle
    /\ srvCalendars' \in Listings \ {srvCalendars}
    /\ UNCHANGED <<clientCache, srvObjects, lastOp, handles, concVars, fxVars>>

\* Another client stores an object in a calendar.
ForeignPut(cals, uids, forms) ==
    /\ lastOp = Idle
    /\ \E c \in cals, u \in uids, comp \in {"VEVENT", "VTODO"}, form \in forms :
          /\ Unused(u)
          /\ srvObjects' = [srvObjects EXCEPT
                                ![c] = Put(@, u, ForeignText(u, comp, form))]
    /\ UNCHANGED <<clientCache, srvCalendars, lastOp, handles, concVars, fxVars>>

Init ==
    /\ clientCache = EmptyMap
    /\ srvCalendars \in Listings
    /\ srvObjects = [c \in CalIds |-> EmptyMap]
    /\ lastOp = Idle
    /\ handles = EmptyMap
    /\ threads = EmptyMap
    /\ sessions = EmptyMap
    /\ tasks = EmptyMap
    /\ inflight = {}
    /\ streams = {}
    /\ events = 0
    /\ errLog = {}

-----------------------------------------------------------------------------
(* Spec: every operation under every configuration and network scenario,   *)
(* with one or two payloads per verb.                                      *)

Summary1Event == EventData(Uid1, TextA, None)

AnonEvent == EventData(<<>>, TextB, Some(TextA))

Summary1Todo == TodoData(Uid1, TextA, None)

AnonTodo == TodoData(<<>>, TextB, Some("IN-PROCESS"))

RenameEvent == EventPartial(Some(TextB), None, None, None)

RenameTodo == TodoPartial(Some(TextB), None, None, None, None, None)

Next ==
    \/ CallCreateEvent(CfgSet, {Summary1Event, AnonEvent}, CreateFaults)
    \/ CallUpdateEvent(CfgSet, {Uid1}, {RenameEvent}, Faults, {Uid1})
    \/ CallDeleteEvent(CfgSet, {Uid1}, Faults, {Uid1})
    \/ CallCreateTodo(CfgSet, {Summary1Todo, AnonTodo}, CreateFaults)
    \/ CallUpdateTodo(CfgSet, {Uid1}, {RenameTodo}, Faults, {Uid1})
    \/ CallCompleteTodo(CfgSet, {Uid1}, Faults, {Uid1})
    \/ CallDeleteTodo(CfgSet, {Uid1}, Faults, {Uid1})
    \/ CallTestConnection(TestCfgs, TestFaults)
    \/ Return
    \/ ServerReconfigure

Spec == Init /\ [][Next]_vars

-----------------------------------------------------------------------------
(* SpecObj: one configuration, objects of other clients on the server, and *)
(* the payloads that tell a changed field from an unchanged one.           *)

NoFields == EventPartial(None, None, None, None)

SameSummary == EventPartial(Some(TextA), None, None, None)

SameStart == EventPartial(None, Some(Time1), None, None)

SameEnd == EventPartial(None, None, Some(Time2), None)

SameDescription == EventPartial(None, None, None, Some(TextA))

DescribedEvent == EventData(Uid1, TextA, Some(TextA))

NoTodoFields == TodoPartial(None, None, None, None, None, None)

SameTodoSummary == TodoPartial(Some(TextA), None, None, None, None, None)

SameStatus == TodoPartial(None, None, Some("NEEDS-ACTION"), None, None, None)

ObjFaults == {"none", "writeFail", "noCap"}

NextObj ==
    \/ CallCreateEvent({BaseCfg}, {DescribedEvent, AnonEvent}, {"none", "writeFail"})
    \/ CallUpdateEvent({BaseCfg}, {Uid1}, {NoFields, SameSummary, RenameEvent, SameStart,
                       SameEnd, SameDescription}, ObjFaults, {Uid1, Uid10})
    \/ CallDeleteEvent({BaseCfg}, {Uid1}, ObjFaults, {Uid1, Uid10})
    \/ CallCreateTodo({BaseCfg}, {Summary1Todo, AnonTodo}, {"none", "writeFail"})
    \/ CallUpdateTodo({BaseCfg}, {Uid1}, {NoTodoFields, SameTodoSummary, RenameTodo,
                      SameStatus, CompletePayload}, ObjFaults, {Uid1, Uid10})
    \/ CallCompleteTodo({BaseCfg}, {Uid1}, ObjFaults, {Uid1, Uid10})
    \/ CallDeleteTodo({BaseCfg}, {Uid1}, ObjFaults, {Uid1, Uid10})
    \/ ForeignPut({1, 3}, {Uid1, Uid10}, {"wellformed"})
    \/ ForeignPut({1}, {Uid1}, TextForms \ {"wellformed"})
    \/ Return

SpecObj == Init /\ [][NextObj]_vars

-----------------------------------------------------------------------------
(* SpecConc: two callers whose calls run interleaved.  A call is suspended *)
(* at each await (connect, the return of _getClient, the listing, the      *)
(* locate query, the write) and any other call may run in between.  The    *)
(* callers use one server, user and password, hence one session key.       *)

Procs == {1, 2}

ConcCfgs == {BaseCfg, [BaseCfg EXCEPT !.calendarName = Some(<<"Home">>)]}

NoThread == [pc |-> "idle"]

\* A call that has just been made: nothing resolved, located or sent yet.
Started(verb, cfg, uid, data, now) ==
    [pc |-> "started", verb |-> verb, cfg |-> cfg, uid |-> uid, data |-> data,
     now |-> now, sid |-> None, cal |-> None, pre |-> None, sent |-> None,
     before |-> None, res |-> "", trace |-> <<>>, notes |-> <<>>, cleared |-> FALSE]

\* The call ends: its promise resolves or rejects.
Ended(t, res, trace, notes) ==
    [t EXCEPT !.pc = "done", !.res = res, !.trace = trace, !.notes = notes]

\* The cache after a mutation of the ClientCache object sid: the object is
\* shared between the cache and every call that holds it.
Shared(cache, sid, calendars) ==
    [k \in DOMAIN cache |->
        IF cache[k].sid = sid THEN [cache[k] EXCEPT !.calendars = calendars]
        ELSE cache[k]]

\* The object's resource on the server is as the call located it: its etag
\* is the one the call holds.
Fresh(objs, cal, located) ==
    /\ located.uid \in DOMAIN objs[cal.id]
    /\ objs[cal.id][located.uid] = located

\* The name of the ClientCache object caller p creates now: a caller creates
\* at most one before the tester has cleared the cache and one after.
SessionId(p) == IF lastOp = Idle THEN p ELSE p + Cardinality(Procs)

\* A sync verb is called: the synchronous head of _getClient up to its first
\* await, the connect of a new client or the return of the cached session.
Begin(p) ==
    /\ threads[p] = NoThread
    /\ \E verb \in {"updateEvent", "deleteEvent"}, cfg \in ConcCfgs,
          data \in {SameStart}, now \in NowSet :
          LET t == Started(verb, cfg, Uid1, IF verb = "updateEvent" THEN Some(data) ELSE None,
                           now)
              chk == CheckSettings(cfg)
              key == ClientKey(cfg)
          IN  threads' = [threads EXCEPT ![p] =
                 IF ~chk.ok THEN Ended(t, chk.err, <<>>, chk.notes)
                 ELSE IF HasSession(clientCache, key)
                 THEN [t EXCEPT !.pc = "gotClient", !.sid = Some(clientCache[key].sid)]
                 ELSE [t EXCEPT !.pc = "connecting"]]
    /\ UNCHANGED <<clientCache, srvCalendars, srvObjects, lastOp, handles, sessions, fxVars>>

\* connect() settles: rejected, _handleNetErr throws; answered, the new
\* ClientCache object is stored under the key, replacing what is there.
ConnectDone(p) ==
    /\ threads[p].pc = "connecting"
    /\ \E fault \in {"none", "connectFail"} :
          LET t == threads[p]
              client == NewClient(fault)
              key == ClientKey(t.cfg)
          IN  IF ConnectRejected(client)
              THEN /\ threads' = [threads EXCEPT ![p] =
                          Ended(t, HandleNetErr.err, Append(t.trace, Rejected("connect")),
                                Append(t.notes, HandleNetErr.note))]
                   /\ UNCHANGED <<clientCache, sessions>>
              ELSE /\ threads' = [threads EXCEPT ![p] =
                          [t EXCEPT !.pc = "gotClient", !.sid = Some(SessionId(p)),
                                    !.trace = Append(t.trace, Sent("connect"))]]
                   /\ sessions' = Put(sessions, SessionId(p),
                          [client |-> client, calendars |-> EmptyMap,
                           beforeClear |-> t.cleared])
                   /\ clientCache' = Put(clientCache, key,
                          [client |-> client, calendars |-> EmptyMap, sid |-> SessionId(p)])
    /\ UNCHANGED <<srvCalendars, srvObjects, lastOp, handles, fxVars>>

\* _getCalendar resumes with the session: the calendar the session holds
\* under the name, else the listing is requested.
GotClient(p) ==
    /\ threads[p].pc = "gotClient"
    /\ LET t == threads[p]
           calendars == sessions[Get(t.sid)].calendars
           resource == Str(t.cfg.calendarName)
       IN  threads' = [threads EXCEPT ![p] =
              IF HasCalendar(calendars, resource)
              THEN [t EXCEPT !.pc = "gotCalendar",
                             !.cal = Some(SessionCalendar(calendars, resource))]
              ELSE [t EXCEPT !.pc = "listing"]]
    /\ UNCHANGED <<clientCache, srvCalendars, srvObjects, lastOp, handles, sessions, fxVars>>

\* findAllCalendars() settles: the first calendar of the name is put in the
\* calendars map of the session the call holds.
ListDone(p) ==
    /\ threads[p].pc = "listing"
    /\ \E fault \in {"none", "listFail"} :
          LET t == threads[p]
              sid == Get(t.sid)
              resource == Str(t.cfg.calendarName)
              found == FindCalendar(srvCalendars, resource)
          IN  IF fault = "listFail"
              THEN /\ threads' = [threads EXCEPT ![p] =
                          Ended(t, HandleNetErr.err, Append(t.trace, Rejected("list")),
                                Append(t.notes, HandleNetErr.note))]
                   /\ UNCHANGED <<clientCache, sessions>>
              ELSE IF IsSome(found)
              THEN /\ threads' = [threads EXCEPT ![p] =
                          [t EXCEPT !.pc = "gotCalendar", !.cal = found,
                                    !.trace = Append(t.trace, Sent("list"))]]
                   /\ sessions' = [sessions EXCEPT
                                       ![sid].calendars = Put(@, resource, Get(found))]
                   /\ clientCache' = Shared(clientCache, sid,
                                            Put(sessions[sid].calendars, resource, Get(found)))
              ELSE /\ threads' = [threads EXCEPT ![p] =
                          Ended(t, "CalendarNotFound", Append(t.trace, Sent("list")),
                                Append(t.notes, Note("ERROR", "CALENDAR_NOT_FOUND")))]
                   /\ UNCHANGED <<clientCache, sessions>>
    /\ UNCHANGED <<srvCalendars, srvObjects, lastOp, handles, fxVars>>

\* The verb resumes with the calendar: _updateEvent rejects a read-only one;
\* then the locate query is requested.
GotCalendar(p) ==
    /\ threads[p].pc = "gotCalendar"
    /\ LET t == threads[p]
       IN  threads' = [threads EXCEPT ![p] =
              IF t.verb = "updateEvent" /\ ReadOnly(Get(t.cal))
              THEN Ended(t, "CalendarReadOnly", t.trace, Append(t.notes, ReadOnlyNote))
              ELSE [t EXCEPT !.pc = "querying"]]
    /\ UNCHANGED <<clientCache, srvCalendars, srvObjects, lastOp, handles, sessions, fxVars>>

\* calendarQuery settles: the verb takes the first match as the server has
\* it now, applies the changes to its copy and requests the write.
QueryDone(p) ==
    /\ threads[p].pc = "querying"
    /\ \E fault \in {"none", "queryFail"} :
          LET t == threads[p]
              trq == Append(t.trace, Sent("query"))
              found == FirstMatch(srvObjects[Get(t.cal).id], t.uid, "VEVENT", t.uid)
              ch == ApplyEventChanges(Get(found), Get(t.data), t.now)
          IN  threads' = [threads EXCEPT ![p] =
                 IF fault = "queryFail"
                 THEN Ended(t, "RequestError", Append(t.trace, Rejected("query")), t.notes)
                 ELSE IF found = None THEN Ended(t, "ok", trq, t.notes)
                 ELSE IF t.verb = "deleteEvent"
                 THEN [t EXCEPT !.pc = "writing", !.pre = found, !.trace = trq]
                 ELSE IF ParseThrows(Get(found))
                 THEN Ended([t EXCEPT !.pre = found], "ParserError", trq, t.notes)
                 ELSE IF NoSubcomponent(Get(found)) \/ ~ch.changeObserved
                 THEN Ended([t EXCEPT !.pre = found], "ok", trq, t.notes)
                 ELSE [t EXCEPT !.pc = "writing", !.pre = found, !.sent = Some(ch.obj),
                                !.trace = trq]]
    /\ UNCHANGED <<clientCache, srvCalendars, srvObjects, lastOp, handles, sessions, fxVars>>

(* event.update() or event.delete() settles.  The request names the        *)
(* resource the call located and is made with the etag it was located      *)
(* with.  A server that enforces the etag refuses the request when the     *)
(* resource has changed or gone since; one that does not (or a resource    *)
(* listed without an etag) takes the write as it comes.  `before` is what  *)
(* the server holds under the uid when the write arrives.                  *)
WriteDone(p) ==
    /\ threads[p].pc = "writing"
    /\ \E fault \in {"none", "writeFail"}, enforced \in BOOLEAN :
          LET t == threads[p]
              cal == Get(t.cal)
              uid == Get(t.pre).uid
              held == IF uid \in DOMAIN srvObjects[cal.id]
                      THEN Some(srvObjects[cal.id][uid]) ELSE None
              req == IF t.verb = "updateEvent" THEN "update" ELSE "delete"
              refused == \/ fault = "writeFail"
                         \/ enforced /\ ~Fresh(srvObjects, cal, Get(t.pre))
          IN  IF refused
              THEN /\ threads' = [threads EXCEPT ![p] =
                          Ended([t EXCEPT !.before = held], HandleNetErr.err,
                                Append(t.trace, Rejected(req)),
                                Append(t.notes, HandleNetErr.note))]
                   /\ UNCHANGED srvObjects
              ELSE /\ threads' = [threads EXCEPT ![p] =
                          Ended([t EXCEPT !.before = held], "ok",
                                Append(t.trace, Sent(req)), t.notes)]
                   /\ srvObjects' = [srvObjects EXCEPT ![cal.id] =
                          IF t.verb = "updateEvent" THEN Put(@, uid, Get(t.sent))
                          ELSE Drop(@, uid)]
                   /\ WithinSeq(srvObjects')
    /\ UNCHANGED <<clientCache, srvCalendars, lastOp, handles, sessions, fxVars>>

\* The caller takes the outcome of its call.
Finish(p) ==
    /\ threads[p].pc = "done"
    /\ threads' = [threads EXCEPT ![p] = NoThread]
    /\ UNCHANGED <<clientCache, srvCalendars, srvObjects, lastOp, handles, sessions, fxVars>>

\* An event the service created is on the server and no session is cached.
InitConc ==
    /\ clientCache = EmptyMap
    /\ srvCalendars \in Listings
    /\ srvObjects = [c \in CalIds |->
                        IF c = 1 THEN Put(EmptyMap, Uid1, BuildEvent(Uid1, Summary1Event, Time1))
                        ELSE EmptyMap]
    /\ lastOp = Idle
    /\ handles = EmptyMap
    /\ threads = [p \in Procs |-> NoThread]
    /\ sessions = EmptyMap
    /\ tasks = EmptyMap
    /\ inflight = {}
    /\ streams = {}
    /\ events = 0
    /\ errLog = {}

NextConc ==
    \E p \in Procs :
        \/ Begin(p)
        \/ ConnectDone(p)
        \/ GotClient(p)
        \/ ListDone(p)
        \/ GotCalendar(p)
        \/ QueryDone(p)
        \/ WriteDone(p)
        \/ Finish(p)

SpecConc == InitConc /\ [][NextConc]_vars

-----------------------------------------------------------------------------
(* SpecClear: the two callers and the connection tester.  testConnection   *)
(* clears the cache before its first await, then connects and lists with a *)
(* client of its own that never enters the cache.  The tester runs once    *)
(* and each caller makes one call.                                         *)

\* testConnection is called: this._clientCache.clear(), then the await of its
\* connect.  A sync call that awaits its own connect now started it before
\* the clear.
TestBegin ==
    /\ lastOp = Idle
    /\ clientCache' = ClearCache(clientCache)
    /\ threads' = [p \in Procs |->
                      IF threads[p].pc = "connecting"
                      THEN [threads[p] EXCEPT !.cleared = TRUE]
                      ELSE threads[p]]
    /\ lastOp' = [verb |-> "testConnection", cfg |-> BaseCfg]
    /\ UNCHANGED <<srvCalendars, srvObjects, handles, sessions, fxVars>>

\* The tester's connect and listing settle and its result is returned.
TestDone ==
    /\ lastOp.verb = "testConnection"
    /\ \E fault \in TestFaults :
          \A o \in {TestConnection(EmptyMap, lastOp.cfg, fault, srvCalendars)} :
              lastOp' = [verb |-> "tested", cfg |-> lastOp.cfg, ret |-> o.ret]
    /\ UNCHANGED <<clientCache, srvCalendars, srvObjects, handles, concVars, fxVars>>

InitClear ==
    /\ clientCache = EmptyMap
    /\ srvCalendars = <<CalWork, CalHome, CalShared>>
    /\ srvObjects = [c \in CalIds |->
                        IF c = 1 THEN Put(EmptyMap, Uid1, BuildEvent(Uid1, Summary1Event, Time1))
                        ELSE EmptyMap]
    /\ lastOp = Idle
    /\ handles = EmptyMap
    /\ threads = [p \in Procs |-> NoThread]
    /\ sessions = EmptyMap
    /\ tasks = EmptyMap
    /\ inflight = {}
    /\ streams = {}
    /\ events = 0
    /\ errLog = {}

NextClear ==
    \/ \E p \in Procs :
          \/ Begin(p)
          \/ ConnectDone(p)
          \/ GotClient(p)
          \/ ListDone(p)
          \/ GotCalendar(p)
          \/ QueryDone(p)
          \/ WriteDone(p)
    \/ TestBegin
    \/ TestDone

SpecClear == InitClear /\ [][NextClear]_vars

-----------------------------------------------------------------------------
(* SpecCodec: the codec on its own.  A text is escaped and read back; an   *)
(* event or todo record is built into an object and the object is parsed.  *)

\* The longest text escaped.
MaxLen == 3

\* The characters _escapeIcalText replaces, the letter n, and another letter.
Alphabet == {"\\", ";", ",", "\n", "n", "a"}

RECURSIVE TextsUpTo(_)
TextsUpTo(n) ==
    IF n = 0 THEN {<<>>}
    ELSE LET shorter == TextsUpTo(n - 1)
         IN  shorter \cup {Append(t, c) : t \in {x \in shorter : Len(x) = n - 1},
                                          c \in Alphabet}

Texts == TextsUpTo(MaxLen)

\* description?: undefined, the empty string, or a text.
Descriptions == {None, Some(<<>>), Some(TextB), Some(<<"\\", "n", "\n">>)}

\* CalendarEventData records; Time2 is not a whole second.
CodecEvents ==
    { [uid |-> Uid1, summary |-> s, start |-> a, end |-> b, description |-> d] :
        s \in {TextA, TextB, <<>>}, a \in {Time1, Time2}, b \in {Time1, Time2},
        d \in Descriptions }

\* CalendarTodoData records.
CodecTodos ==
    { [TodoData(Uid1, s, None) EXCEPT !.description = d, !.dueDate = due] :
        s \in {TextA, TextB, <<>>}, d \in Descriptions,
        due \in {None, Some(Time1), Some(Time2)} }

\* _escapeIcalText(text)
CallEscape ==
    /\ lastOp.verb = "text"
    /\ lastOp' = [verb |-> "escapeIcalText", text |-> lastOp.text,
                  raw |-> EscapeIcalText(lastOp.text)]
    /\ UNCHANGED <<clientCache, srvCalendars, srvObjects, handles, concVars, fxVars>>

\* The escaped text is read back as the value of a TEXT property.
ParseText ==
    /\ lastOp.verb = "escapeIcalText"
    /\ lastOp' = [verb |-> "parsedText", text |-> lastOp.text, raw |-> lastOp.raw,
                  value |-> IcalUnescape(lastOp.raw)]
    /\ UNCHANGED <<clientCache, srvCalendars, srvObjects, handles, concVars, fxVars>>

\* _createEvent builds the ICS text of the record.
CallBuildEvent ==
    /\ lastOp.verb = "eventData"
    /\ \E now \in NowSet :
          lastOp' = [verb |-> "buildEvent", data |-> lastOp.data,
                     object |-> BuildEvent(lastOp.data.uid, lastOp.data, now)]
    /\ UNCHANGED <<clientCache, srvCalendars, srvObjects, handles, concVars, fxVars>>

\* _createTodo builds the ICS text of the record.
CallBuildTodo ==
    /\ lastOp.verb = "todoData"
    /\ \E now \in NowSet :
          lastOp' = [verb |-> "buildTodo", data |-> lastOp.data,
                     object |-> BuildTodo(lastOp.data.uid, lastOp.data, now)]
    /\ UNCHANGED <<clientCache, srvCalendars, srvObjects, handles, concVars, fxVars>>

\* The built text is parsed and its properties are read.
ParseObject ==
    /\ lastOp.verb \in {"buildEvent", "buildTodo"}
    /\ lastOp' = [verb |-> "parsed", comp |-> lastOp.object.comp, data |-> lastOp.data,
                  summary |-> TextValue(lastOp.object.summary),
                  description |-> TextValue(lastOp.object.description),
                  dtstart |-> lastOp.object.dtstart, dtend |-> lastOp.object.dtend,
                  due |-> lastOp.object.due]
    /\ UNCHANGED <<clientCache, srvCalendars, srvObjects, handles, concVars, fxVars>>

InitCodec ==
    /\ lastOp \in {[verb |-> "text", text |-> t] : t \in Texts}
                  \cup {[verb |-> "eventData", data |-> d] : d \in CodecEvents}
                  \cup {[verb |-> "todoData", data |-> d] : d \in CodecTodos}
    /\ clientCache = EmptyMap
    /\ srvCalendars = <<>>
    /\ srvObjects = EmptyMap
    /\ handles = EmptyMap
    /\ threads = EmptyMap
    /\ sessions = EmptyMap
    /\ tasks = EmptyMap
    /\ inflight = {}
    /\ streams = {}
    /\ events = 0
    /\ errLog = {}

NextCodec ==
    \/ CallEscape
    \/ ParseText
    \/ CallBuildEvent
    \/ CallBuildTodo
    \/ ParseObject

SpecCodec == InitCodec /\ [][NextCodec]_vars

-----------------------------------------------------------------------------
(* SpecFx: the task-lifecycle effects (CaldavCalendarEffects).  A task     *)
(* event runs the reducer, then every effect that listens for it; an       *)
(* effect that passes its filters subscribes to one sync call.  The calls  *)
(* settle later, in any order.                                             *)

\* The most sync calls in flight.
MaxInflight == 2

\* The most task events of a run.
MaxEvents == 3

DEFAULT_EVENT_DURATION_MS == 60 * 60 * 1000

\* _isEnabled (the configuration is present)
IsEnabled(cfg) ==
    /\ cfg.isEnabled
    /\ Truthy(cfg.caldavUrl)
    /\ Truthy(cfg.calendarName)
    /\ Truthy(cfg.username)
    /\ Truthy(cfg.password)

\* _isTodoSyncEnabled
IsTodoSyncEnabled(cfg) == IsEnabled(cfg) /\ cfg.syncTodos = TRUE

\* A uid made from the id of another task.
TaskUidOther(id) == <<"sp-task-", "0">>

\* `sp-task-${task.id}`
TaskUid(id) == <<"sp-task-">> \o id

\* calendarEventUid.startsWith('sp-task-')
StartsWithSpTask(uid) == uid # <<>> /\ Head(uid) = "sp-task-"

\* A duration that is the estimate, also when it is zero.
DurationPlain(task) == task.timeEstimate

\* task.timeEstimate || DEFAULT_EVENT_DURATION_MS
Duration(task) ==
    IF task.timeEstimate # 0 THEN task.timeEstimate ELSE DEFAULT_EVENT_DURATION_MS

\* The CalendarEventData the create effects build for a task.
TaskEventData(id, task, start) ==
    [uid |-> TaskUid(id), summary |-> task.title, start |-> start,
     end |-> start + Duration(task),
     description |-> IF task.notes # <<>> THEN Some(task.notes) ELSE None]

\* nextHour.setMinutes(0, 0, 0); nextHour.setHours(nextHour.getHours() + 1)
NextFullHour(now) ==
    ((now \div DEFAULT_EVENT_DURATION_MS) + 1) * DEFAULT_EVENT_DURATION_MS

(* An inner observable of an effect: the sync call it subscribed to and    *)
(* what its map() does with the emission: set calendarEventUid to the uid  *)
(* returned (setUid), that and dueWithTime (setUidAndDue), reset it to     *)
(* null (clearUid), or nothing (none).                                     *)
SyncCall(effect, verb, cfg, id, uid, data, then) ==
    [effect |-> effect, verb |-> verb, cfg |-> cfg, id |-> id, uid |-> uid,
     data |-> data, then |-> then]

\* createEventOnSchedule$
CreateEventOnSchedule(id, task, dueWithTime, cfg) ==
    IF IsEnabled(cfg)
    THEN {SyncCall("createEventOnSchedule", "createEvent", cfg, id, TaskUid(id),
                   Some(TaskEventData(id, task, dueWithTime)), "setUid")}
    ELSE {}

\* updateEventOnReschedule$
UpdateEventOnReschedule(id, task, dueWithTime, cfg) ==
    IF ~IsEnabled(cfg) THEN {}
    ELSE IF ~Truthy(task.calendarEventUid)
    THEN {SyncCall("updateEventOnReschedule", "createEvent", cfg, id, TaskUid(id),
                   Some(TaskEventData(id, task, dueWithTime)), "setUid")}
    ELSE {SyncCall("updateEventOnReschedule", "updateEvent", cfg, id,
                   Get(task.calendarEventUid),
                   Some(EventPartial(None, Some(dueWithTime),
                                     Some(dueWithTime + Duration(task)), None)),
                   "none")}

\* A delete call for the task read from the store, with or without a
\* calendarEventUid.
DeleteForAny(effect, synced, id, store, cfg, then) ==
    IF id \in DOMAIN store
    THEN {SyncCall(effect, "deleteEvent", cfg, id,
                   IF Truthy(store[id].calendarEventUid)
                   THEN Get(store[id].calendarEventUid) ELSE <<>>, None, then)}
    ELSE {}

\* The delete call of an effect for the task read from the store, if it has
\* a calendarEventUid (and, for the synced effects, one that starts sp-task-).
DeleteFor(effect, synced, id, store, cfg, then) ==
    IF /\ id \in DOMAIN store
       /\ Truthy(store[id].calendarEventUid)
       /\ synced => StartsWithSpTask(Get(store[id].calendarEventUid))
    THEN {SyncCall(effect, "deleteEvent", cfg, id, Get(store[id].calendarEventUid),
                   None, then)}
    ELSE {}

\* deleteEventOnUnschedule$
DeleteEventOnUnschedule(id, store, cfg) ==
    IF IsEnabled(cfg)
    THEN DeleteFor("deleteEventOnUnschedule", FALSE, id, store, cfg, "clearUid")
    ELSE {}

\* deleteEventOnTaskDelete$: the task of the action
DeleteEventOnTaskDelete(id, task, cfg) ==
    IF IsEnabled(cfg)
    THEN DeleteFor("deleteEventOnTaskDelete", FALSE, id, [i \in {id} |-> task], cfg, "none")
    ELSE {}

\* The summary update of an effect for the task read from the store.
RenameFor(effect, synced, id, title, store, cfg) ==
    IF /\ id \in DOMAIN store
       /\ Truthy(store[id].calendarEventUid)
       /\ synced => StartsWithSpTask(Get(store[id].calendarEventUid))
    THEN {SyncCall(effect, "updateEvent", cfg, id, Get(store[id].calendarEventUid),
                   Some(EventPartial(Some(title), None, None, None)), "none")}
    ELSE {}

\* updateEventOnTitleChange$
UpdateEventOnTitleChange(id, title, store, cfg) ==
    IF title # <<>> /\ IsEnabled(cfg)
    THEN RenameFor("updateEventOnTitleChange", FALSE, id, title, store, cfg)
    ELSE {}

\* deleteEventOnTaskDone$
DeleteEventOnTaskDone(id, store, cfg) ==
    IF IsEnabled(cfg)
    THEN DeleteFor("deleteEventOnTaskDone", FALSE, id, store, cfg, "clearUid")
    ELSE {}

\* createEventOnAddTask$
CreateEventOnAddTask(id, task, now, cfg) ==
    IF IsTodoSyncEnabled(cfg) /\ ~Truthy(task.parentId)
    THEN {SyncCall("createEventOnAddTask", "createEvent", cfg, id, TaskUid(id),
                   Some(TaskEventData(id, task, NextFullHour(now))), "setUidAndDue")}
    ELSE {}

\* updateSyncedEventOnTitleChange$
UpdateSyncedEventOnTitleChange(id, title, store, cfg) ==
    IF title # <<>> /\ IsTodoSyncEnabled(cfg)
    THEN RenameFor("updateSyncedEventOnTitleChange", TRUE, id, title, store, cfg)
    ELSE {}

\* deleteSyncedEventOnTaskDone$
DeleteSyncedEventOnTaskDone(id, store, cfg) ==
    IF IsTodoSyncEnabled(cfg)
    THEN DeleteFor("deleteSyncedEventOnTaskDone", TRUE, id, store, cfg, "clearUid")
    ELSE {}

\* deleteSyncedEventOnTaskDelete$: the task of the action
DeleteSyncedEventOnTaskDelete(id, task, cfg) ==
    IF IsTodoSyncEnabled(cfg)
    THEN DeleteFor("deleteSyncedEventOnTaskDelete", TRUE, id, [i \in {id} |-> task], cfg,
                   "none")
    ELSE {}

Effects ==
    {"createEventOnSchedule", "updateEventOnReschedule", "deleteEventOnUnschedule",
     "deleteEventOnTaskDelete", "updateEventOnTitleChange", "deleteEventOnTaskDone",
     "createEventOnAddTask", "updateSyncedEventOnTitleChange",
     "deleteSyncedEventOnTaskDone", "deleteSyncedEventOnTaskDelete"}

\* The configurations caldavCalendar$ may hold when a task event arrives.
FxCfgs ==
    {BaseCfg, [BaseCfg EXCEPT !.syncTodos = TRUE], [BaseCfg EXCEPT !.isEnabled = FALSE]}

TaskIds == {<<"1">>}

\* A task as addTask carries it: a main task or a subtask, with no estimate
\* or with an estimate of half an hour.
NewTask(id, parentId, timeEstimate) ==
    [title |-> TextA, notes |-> <<>>, calendarEventUid |-> None, dueWithTime |-> None,
     timeEstimate |-> timeEstimate, parentId |-> parentId, isDone |-> FALSE]

\* The task event the effects saw last: the task and the configuration they
\* were given, the calls they issued, and how the call that settled just
\* before the event had ended, if one did.
TaskEvent(type, id, task, cfg, arg, calls) ==
    [verb |-> type, id |-> id, task |-> task, cfg |-> cfg, arg |-> arg,
     calls |-> {c \in calls : c.effect \in streams},
     prev |-> IF lastOp.verb = "settled" THEN Some(lastOp.res) ELSE None]

\* A task event is counted; the calls of the effects whose stream is
\* subscribed are subscribed to.
Subscribe(calls) ==
    LET live == {c \in calls : c.effect \in streams}
    IN  /\ events < MaxEvents
        /\ events' = events + 1
        /\ live \cap inflight = {}
        /\ Cardinality(inflight \cup live) <= MaxInflight
        /\ inflight' = inflight \cup live

\* addTask: the reducer adds the task; createEventOnAddTask$ sees the action.
AddTask ==
    /\ \E id \in TaskIds, cfg \in FxCfgs, now \in NowSet,
          parentId \in {None, Some(<<"0">>)},
          timeEstimate \in {0, DEFAULT_EVENT_DURATION_MS \div 2} :
          /\ id \notin DOMAIN tasks
          /\ \A task \in {NewTask(id, parentId, timeEstimate)} :
             \A calls \in {CreateEventOnAddTask(id, task, now, cfg)} :
                /\ Subscribe(calls)
                /\ tasks' = Put(tasks, id, task)
                /\ lastOp' = TaskEvent("addTask", id, task, cfg, None, calls)
    /\ UNCHANGED <<clientCache, srvCalendars, srvObjects, handles, concVars, streams, errLog>>

\* scheduleTaskWithTime
ScheduleTaskWithTime ==
    /\ \E id \in DOMAIN tasks, cfg \in FxCfgs, dueWithTime \in {Time1} :
          /\ tasks[id].dueWithTime = None
          /\ \A calls \in {CreateEventOnSchedule(id, tasks[id], dueWithTime, cfg)} :
                /\ Subscribe(calls)
                /\ lastOp' = TaskEvent("scheduleTaskWithTime", id, tasks[id], cfg,
                                       Some(dueWithTime), calls)
          /\ tasks' = [tasks EXCEPT ![id].dueWithTime = Some(dueWithTime)]
    /\ UNCHANGED <<clientCache, srvCalendars, srvObjects, handles, concVars, streams, errLog>>

\* reScheduleTaskWithTime
ReScheduleTaskWithTime ==
    /\ \E id \in DOMAIN tasks, cfg \in FxCfgs, dueWithTime \in {Time2} :
          /\ tasks[id].dueWithTime # None
          /\ \A calls \in {UpdateEventOnReschedule(id, tasks[id], dueWithTime, cfg)} :
                /\ Subscribe(calls)
                /\ lastOp' = TaskEvent("reScheduleTaskWithTime", id, tasks[id], cfg,
                                       Some(dueWithTime), calls)
          /\ tasks' = [tasks EXCEPT ![id].dueWithTime = Some(dueWithTime)]
    /\ UNCHANGED <<clientCache, srvCalendars, srvObjects, handles, concVars, streams, errLog>>

\* unscheduleTask: the effect reads the task from the store.
UnscheduleTask ==
    /\ \E id \in DOMAIN tasks, cfg \in FxCfgs :
          /\ tasks[id].dueWithTime # None
          /\ tasks' = [tasks EXCEPT ![id].dueWithTime = None]
          /\ \A calls \in {DeleteEventOnUnschedule(id, tasks', cfg)} :
                /\ Subscribe(calls)
                /\ lastOp' = TaskEvent("unscheduleTask", id, tasks'[id], cfg, None, calls)
    /\ UNCHANGED <<clientCache, srvCalendars, srvObjects, handles, concVars, streams, errLog>>

\* deleteTask: both delete effects see the task of the action.
DeleteTask ==
    /\ \E id \in DOMAIN tasks, cfg \in FxCfgs :
          /\ \A calls \in {DeleteEventOnTaskDelete(id, tasks[id], cfg)
                           \cup DeleteSyncedEventOnTaskDelete(id, tasks[id], cfg)} :
                /\ Subscribe(calls)
                /\ lastOp' = TaskEvent("deleteTask", id, tasks[id], cfg, None, calls)
          /\ tasks' = [i \in DOMAIN tasks \ {id} |-> tasks[i]]
    /\ UNCHANGED <<clientCache, srvCalendars, srvObjects, handles, concVars, streams, errLog>>

\* updateTask with changes.title: both title effects read the task from the store.
UpdateTaskTitle ==
    /\ \E id \in DOMAIN tasks, cfg \in FxCfgs, title \in {TextB} :
          /\ tasks' = [tasks EXCEPT ![id].title = title]
          /\ \A calls \in {UpdateEventOnTitleChange(id, title, tasks', cfg)
                           \cup UpdateSyncedEventOnTitleChange(id, title, tasks', cfg)} :
                /\ Subscribe(calls)
                /\ lastOp' = TaskEvent("updateTask", id, tasks'[id], cfg,
                                       Some([title |-> title]), calls)
    /\ UNCHANGED <<clientCache, srvCalendars, srvObjects, handles, concVars, streams, errLog>>

\* updateTask with changes.isDone === true: both done effects read the store.
UpdateTaskDone ==
    /\ \E id \in DOMAIN tasks, cfg \in FxCfgs :
          /\ ~tasks[id].isDone
          /\ tasks' = [tasks EXCEPT ![id].isDone = TRUE]
          /\ \A calls \in {DeleteEventOnTaskDone(id, tasks', cfg)
                           \cup DeleteSyncedEventOnTaskDone(id, tasks', cfg)} :
                /\ Subscribe(calls)
                /\ lastOp' = TaskEvent("updateTask", id, tasks'[id], cfg,
                                       Some([isDone |-> TRUE]), calls)
    /\ UNCHANGED <<clientCache, srvCalendars, srvObjects, handles, concVars, streams, errLog>>

\* The scenarios a sync call of an effect meets.
FxFaults == {"none", "writeFail", "queryFail"}

(* The service runs the call.  A server refuses a second resource with a   *)
(* UID it holds.                                                           *)
SyncOutcome(call, fault, now) ==
    IF call.verb = "createEvent"
    THEN CreateEvent(clientCache, srvObjects, srvCalendars, call.cfg, Get(call.data),
                     IF Unused(call.uid) THEN fault ELSE "writeFail", now, Uuid)
    ELSE IF call.verb = "updateEvent"
    THEN UpdateEvent(clientCache, srvObjects, srvCalendars, call.cfg, call.uid,
                     Get(call.data), fault, now, call.uid)
    ELSE DeleteEvent(clientCache, srvObjects, srvCalendars, call.cfg, call.uid, fault,
                     call.uid)

\* The updateTask the map() of the inner observable dispatches, reduced.
Dispatched(call, ret) ==
    IF call.id \notin DOMAIN tasks \/ call.then = "none" THEN tasks
    ELSE IF call.then = "setUid" THEN [tasks EXCEPT ![call.id].calendarEventUid = ret]
    ELSE IF call.then = "setUidAndDue"
    THEN [tasks EXCEPT ![call.id].calendarEventUid = ret,
                       ![call.id].dueWithTime = Some(Get(call.data).start)]
    ELSE [tasks EXCEPT ![call.id].calendarEventUid = None]

\* An error that reaches the effect's stream ends it.
CatchErrorOuter(effect) == streams \ {effect}

\* catchError inside mergeMap returns EMPTY: the inner observable completes.
CatchError(effect) == streams

\* A failed call is not subscribed to again.
Retry(call) == {}

\* A sync call settles: it emits and completes, or it fails.
Settle ==
    /\ \E call \in inflight, fault \in FxFaults, now \in NowSet :
          \A o \in {SyncOutcome(call, fault, now)} :
              /\ WithinSeq(o.objs)
              /\ clientCache' = o.cache
              /\ srvObjects' = o.objs
              /\ IF o.res = "ok"
                 THEN /\ tasks' = Dispatched(call, o.ret)
                      /\ inflight' = inflight \ {call}
                      /\ streams' = streams
                      /\ errLog' = errLog
                 ELSE /\ tasks' = tasks
                      /\ inflight' = (inflight \ {call}) \cup Retry(call)
                      /\ streams' = CatchError(call.effect)
                      /\ errLog' = errLog \cup {call.effect}
              /\ lastOp' = [verb |-> "settled", call |-> call, res |-> o.res,
                            before |-> tasks, trace |-> o.trace,
                            existed |-> ~Unused(call.uid)]
    /\ UNCHANGED <<srvCalendars, handles, concVars, events>>

InitFx ==
    /\ clientCache = EmptyMap
    /\ srvCalendars = <<CalWork, CalHome, CalShared>>
    /\ srvObjects = [c \in CalIds |-> EmptyMap]
    /\ lastOp = Idle
    /\ handles = EmptyMap
    /\ threads = EmptyMap
    /\ sessions = EmptyMap
    /\ tasks = EmptyMap
    /\ inflight = {}
    /\ streams = Effects
    /\ events = 0
    /\ errLog = {}

NextFx ==
    \/ AddTask
    \/ ScheduleTaskWithTime
    \/ ReScheduleTaskWithTime
    \/ UnscheduleTask
    \/ DeleteTask
    \/ UpdateTaskTitle
    \/ UpdateTaskDone
    \/ Settle

SpecFx == InitFx /\ [][NextFx]_vars

-----------------------------------------------------------------------------
(* SpecKey: the session cache under configurations whose strings hold the  *)
(* character "|".  Each session is remembered with the server, user and    *)
(* password its client was constructed with.                               *)

\* Configurations of two users of one server, and of one user named with a
\* "|" whose password is the tail of the other's.
KeyCfgs ==
    { BaseCfg,
      [BaseCfg EXCEPT !.password = Some(<<"x", "|", "pw">>)],
      [BaseCfg EXCEPT !.username = Some(<<"bob", "|", "x">>)] }

\* new DavClient({rootUrl: cfg.caldavUrl}, this._getXhrProvider(cfg)): the
\* server the client talks to and the credentials its requests carry.
Credentials(cfg) == <<cfg.caldavUrl, cfg.username, cfg.password>>

\* A sync verb under one of the configurations; a session that is created
\* keeps the credentials of the configuration that created it.
CallKeyed ==
    /\ lastOp = Idle
    /\ \E cfg \in KeyCfgs, fault \in {"none", "connectFail", "listFail"}, now \in NowSet,
          verb \in {"createEvent", "deleteEvent"} :
          \A o \in {IF verb = "createEvent"
                    THEN CreateEvent(clientCache, srvObjects, srvCalendars, cfg,
                                     Summary1Event,
                                     IF Unused(Uid1) THEN fault ELSE "writeFail", now, Uuid)
                    ELSE DeleteEvent(clientCache, srvObjects, srvCalendars, cfg, Uid1,
                                     fault, Uid1)} :
              /\ clientCache' = o.cache
              /\ srvObjects' = o.objs
              /\ lastOp' = Op(verb, cfg, Uid1, None, now, fault, o)
              /\ sessions' = IF \E i \in 1..Len(o.trace) : o.trace[i] = Sent("connect")
                             THEN Put(sessions, ClientKey(cfg), Credentials(cfg))
                             ELSE sessions
    /\ UNCHANGED <<srvCalendars, handles, threads, fxVars>>

InitKey ==
    /\ clientCache = EmptyMap
    /\ srvCalendars \in Listings
    /\ srvObjects = [c \in CalIds |-> EmptyMap]
    /\ lastOp = Idle
    /\ handles = EmptyMap
    /\ threads = EmptyMap
    /\ sessions = EmptyMap
    /\ tasks = EmptyMap
    /\ inflight = {}
    /\ streams = {}
    /\ events = 0
    /\ errLog = {}

NextKey ==
    \/ CallKeyed
    \/ Return

SpecKey == InitKey /\ [][NextKey]_vars

-----------------------------------------------------------------------------
(* Properties.                                                             *)

SyncVerbs == {"createEvent", "updateEvent", "deleteEvent", "createTodo", "updateTodo",
              "completeTodo", "deleteTodo"}

UpdateVerbs == {"updateEvent", "updateTodo", "completeTodo"}

CreateVerbs == {"createEvent", "createTodo"}

\* The kinds of request a call issued, answered or not.
Reqs(op) == {op.trace[i].req : i \in 1..Len(op.trace)}

\* The call issued that request and the network answered it.
Did(op, req) == \E i \in 1..Len(op.trace) : op.trace[i] = Sent(req)

\* The configuration is disabled, or one of its four strings is null or empty.
Incomplete(cfg) ==
    \/ ~cfg.isEnabled
    \/ \E f \in {"caldavUrl", "calendarName", "username", "password"} :
          cfg[f] = None \/ cfg[f] = Some(<<>>)

\* The component a verb works on.
CompOf(verb) == IF verb \in {"createEvent", "updateEvent", "deleteEvent"}
                THEN "VEVENT" ELSE "VTODO"

C1_Step ==
    /\ (lastOp'.verb \in SyncVerbs /\ Incomplete(lastOp'.cfg))
          => /\ lastOp'.res = "NotConfigured"
             /\ \E i \in 1..Len(lastOp'.notes) : lastOp'.notes[i].type = "ERROR"
             /\ lastOp'.trace = <<>>
             /\ clientCache' = clientCache
             /\ srvObjects' = srvObjects
    /\ lastOp'.verb = "testConnection"
          => /\ lastOp'.res # "NotConfigured"
             /\ "connect" \in Reqs(lastOp')

(* C1: a sync verb called with a configuration that is disabled or has a   *)
(* null or empty serverUrl, calendarName, username or password fails with  *)
(* NotConfigured, opens an ERROR notification, issues no request and       *)
(* leaves the session cache as it was; testConnection applies no such      *)
(* check and goes on to connect.                                           *)
C1_NotConfigured == [][C1_Step]_vars

\* A disabled or incomplete configuration was rejected while sessions were cached.
C1_Witness ==
    /\ lastOp.verb \in SyncVerbs
    /\ Incomplete(lastOp.cfg)
    /\ lastOp.res = "NotConfigured"
    /\ lastOp.had # {}
    /\ clientCache # EmptyMap

(* C2: createEvent, createTodo, updateEvent, updateTodo and completeTodo   *)
(* on a calendar resolved as read-only fail with CalendarReadOnly without  *)
(* a create or update request, and whenever one of these verbs issues a    *)
(* create or update request the resolved calendar is writable.             *)
C2_ReadOnlyRejected ==
    lastOp.verb \in CreateVerbs \cup UpdateVerbs =>
        /\ (IsSome(lastOp.cal) /\ Get(lastOp.cal).readOnly)
              => /\ lastOp.res = "CalendarReadOnly"
                 /\ Reqs(lastOp) \cap {"create", "update"} = {}
        /\ Reqs(lastOp) \cap {"create", "update"} # {}
              => IsSome(lastOp.cal) /\ ~Get(lastOp.cal).readOnly

\* An update met a read-only calendar on a network without faults.
C2_Witness ==
    /\ lastOp.verb \in UpdateVerbs
    /\ IsSome(lastOp.cal) /\ Get(lastOp.cal).readOnly
    /\ lastOp.res = "CalendarReadOnly"
    /\ lastOp.fault = "none"

C3_Step ==
    /\ (lastOp'.verb \in UpdateVerbs /\ Did(lastOp', "update")) =>
          LET cal == Get(lastOp'.cal)
              uid == Get(lastOp'.pre).uid
              before == srvObjects[cal.id][uid]
              after == srvObjects'[cal.id][uid]
          IN  /\ lastOp'.pre = Some(before)
              /\ lastOp'.sent = Some(after)
              /\ after.sequence = Some(IF before.sequence = None THEN 1
                                       ELSE Get(before.sequence) + 1)
    /\ (lastOp'.verb \in CreateVerbs /\ Did(lastOp', "create")) =>
          LET cal == Get(lastOp'.cal)
              uid == Get(lastOp'.ret)
          IN  /\ srvObjects'[cal.id][uid].sequence = Some(0)
              /\ lastOp'.sent = Some(srvObjects'[cal.id][uid])

(* C3: an update that is written stores the SEQUENCE of the located object *)
(* plus one, 1 when the located object has none; a created object is       *)
(* stored with SEQUENCE 0.                                                 *)
C3_SequenceBump == [][C3_Step]_vars

\* An object without SEQUENCE was updated and written with SEQUENCE 1.
C3_Witness ==
    /\ lastOp.verb \in UpdateVerbs
    /\ Did(lastOp, "update")
    /\ Get(lastOp.pre).sequence = None
    /\ Get(lastOp.sent).sequence = Some(1)

\* The instant a stored date-time denotes, in milliseconds.
Instant(t) == IF t.form = "UTC" THEN t.sec * MsPerSecond
              ELSE (t.sec - TzOffsetSec) * MsPerSecond

\* The provided timestamp is the instant the stored date-time denotes.
SameInstant(provided, stored) ==
    IsSome(stored) /\ Instant(Get(stored)) = Get(provided)

\* Every provided field of the payload equals the located object's value.
AllProvidedEqual(verb, data, pre) ==
    /\ IsSome(data.summary) => data.summary = TextValue(pre.summary)
    /\ IsSome(data.description) => data.description = TextValue(pre.description)
    /\ IF verb = "updateEvent"
       THEN /\ IsSome(data.start) => SameInstant(data.start, pre.dtstart)
            /\ IsSome(data.end) => SameInstant(data.end, pre.dtend)
       ELSE /\ IsSome(data.status) => data.status = pre.status
            /\ IsSome(data.percentComplete) => data.percentComplete = pre.percent
            /\ IsSome(data.priority) => data.priority = pre.priority
            /\ IsSome(data.dueDate) => SameInstant(data.dueDate, pre.due)

\* The payload provides a field other than the summary.
ProvidesBeyondSummary(verb, data) ==
    \/ IsSome(data.description)
    \/ IF verb = "updateEvent"
       THEN IsSome(data.start) \/ IsSome(data.end)
       ELSE \/ IsSome(data.status) \/ IsSome(data.percentComplete)
            \/ IsSome(data.priority) \/ IsSome(data.dueDate)

C4_StepOriginal ==
    (/\ lastOp'.verb \in {"updateEvent", "updateTodo"}
     /\ IsSome(lastOp'.pre)
     /\ AllProvidedEqual(lastOp'.verb, Get(lastOp'.data), Get(lastOp'.pre)))
        => /\ "update" \notin Reqs(lastOp')
           /\ srvObjects' = srvObjects

\* C4 as stated: a payload whose provided fields all equal the located
\* object's values is never written.
C4_Original == [][C4_StepOriginal]_vars

C4_Step ==
    (lastOp'.verb \in {"updateEvent", "updateTodo"} /\ IsSome(lastOp'.pre)) =>
        /\ (/\ ~ProvidesBeyondSummary(lastOp'.verb, Get(lastOp'.data))
            /\ AllProvidedEqual(lastOp'.verb, Get(lastOp'.data), Get(lastOp'.pre)))
              => /\ "update" \notin Reqs(lastOp')
                 /\ srvObjects' = srvObjects
        /\ ProvidesBeyondSummary(lastOp'.verb, Get(lastOp'.data))
              => \/ "update" \in Reqs(lastOp')
                 \/ lastOp'.fault = "noCap"
                 \/ Get(lastOp'.pre).text # "wellformed"

(* C4: updateEvent and updateTodo with a payload that provides nothing but *)
(* a summary equal to the located object's summary, or nothing at all,     *)
(* issue no update and leave the stored objects, SEQUENCE included, as     *)
(* they were; a payload that provides any other field is written back      *)
(* whenever the located object parses and can be updated, equal values or  *)
(* not.                                                                    *)
C4_UnchangedSummaryOnly == [][C4_Step]_vars

\* An event was located, the payload's summary was its summary, nothing was written.
C4_Witness ==
    /\ lastOp.verb = "updateEvent"
    /\ lastOp.data = Some(SameSummary)
    /\ IsSome(lastOp.pre)
    /\ TextValue(Get(lastOp.pre).summary) = Some(TextA)
    /\ "update" \notin Reqs(lastOp)
    /\ lastOp.res = "ok"

C5_Step ==
    (/\ lastOp'.verb \in UpdateVerbs \cup {"deleteEvent", "deleteTodo"}
     /\ Did(lastOp', "query")
     /\ ~\E u \in DOMAIN srvObjects[Get(lastOp'.cal).id] :
            /\ srvObjects[Get(lastOp'.cal).id][u].comp = CompOf(lastOp'.verb)
            /\ Contains(u, lastOp'.uid))
        => /\ lastOp'.res = "ok"
           /\ Reqs(lastOp') \cap {"update", "delete"} = {}
           /\ \E i \in 1..Len(lastOp'.logs) : lastOp'.logs[i].lvl = "warn"
           /\ srvObjects' = srvObjects

(* C5: an update, completion or deletion whose locate query is answered    *)
(* with no object for the uid ends successfully, issues no update and no   *)
(* delete request, changes nothing on the server and logs a warning.       *)
C5_NothingLocated == [][C5_Step]_vars

\* deleteEvent located nothing although a VTODO with that uid is stored.
C5_Witness ==
    /\ lastOp.verb = "deleteEvent"
    /\ Did(lastOp, "query")
    /\ lastOp.res = "ok"
    /\ lastOp.pre = None
    /\ \E u \in DOMAIN srvObjects[Get(lastOp.cal).id] :
          u = lastOp.uid /\ srvObjects[Get(lastOp.cal).id][u].comp = "VTODO"

C6_Step ==
    (/\ lastOp'.verb \in SyncVerbs
     /\ ~Incomplete(lastOp'.cfg)
     /\ Params(lastOp'.cfg) \in DOMAIN handles)
        => /\ lastOp'.cal = Some(handles[Params(lastOp'.cfg)])
           /\ Reqs(lastOp') \cap {"connect", "list"} = {}

(* C6: once _getCalendar has returned a Calendar for a valid configuration, *)
(* every later call with the same serverUrl, username, password and        *)
(* calendarName, with no clear() in between, works on that same Calendar   *)
(* and issues neither a connect nor a listing request.                     *)
C6_CalendarReused == [][C6_Step]_vars

\* The cached Calendar was used although a listing would now resolve the
\* name to another calendar.
C6_Witness ==
    /\ lastOp.verb \in SyncVerbs
    /\ lastOp.cal = Some(CalWork)
    /\ srvCalendars[1] = CalShared
    /\ Reqs(lastOp) \cap {"connect", "list"} = {}

(* C7: createEvent and createTodo on a writable calendar with every        *)
(* request answered issue exactly one create request, for an object that   *)
(* carries the returned uid and SEQUENCE 0; the returned uid is the        *)
(* caller's when one is given, else a generated one starting with "sp-".   *)
C7_CreateOnce ==
    (/\ lastOp.verb \in CreateVerbs
     /\ IsSome(lastOp.cal) /\ ~Get(lastOp.cal).readOnly
     /\ \A i \in 1..Len(lastOp.trace) : lastOp.trace[i].ok)
        => /\ lastOp.res = "ok"
           /\ Cardinality({i \in 1..Len(lastOp.trace) : lastOp.trace[i].req = "create"}) = 1
           /\ IsSome(lastOp.ret) /\ IsSome(lastOp.sent)
           /\ Get(lastOp.sent).uid = Get(lastOp.ret)
           /\ Get(lastOp.sent).comp = CompOf(lastOp.verb)
           /\ Get(lastOp.sent).sequence = Some(0)
           /\ lastOp.uid # <<>> => Get(lastOp.ret) = lastOp.uid
           /\ lastOp.uid = <<>> => /\ Len(Get(lastOp.ret)) > 1
                                   /\ Head(Get(lastOp.ret)) = "sp-"

\* createTodo without a uid returned a generated one.
C7_Witness ==
    /\ lastOp.verb = "createTodo"
    /\ lastOp.uid = <<>>
    /\ lastOp.res = "ok"
    /\ Did(lastOp, "create")
    /\ Head(Get(lastOp.ret)) = "sp-"

(* C8: testConnection always returns a result: success=false with an error *)
(* message when the connect or the listing fails or there is no calendar   *)
(* home, else success=true with the names of all listed calendars, and an  *)
(* error exactly when a non-empty calendarName is configured and is not    *)
(* one of them, the message containing that name and every listed name.    *)
C8_TesterResult ==
    lastOp.verb = "testConnection" =>
        /\ lastOp.res = "ok"
        /\ IsSome(lastOp.ret)
        /\ LET r == Get(lastOp.ret)
               n == Len(srvCalendars)
               name(i) == IF srvCalendars[i].displayname \notin {None, Some(<<>>)}
                          THEN Get(srvCalendars[i].displayname)
                          ELSE GetCalendarUriFromUrl(srvCalendars[i].url)
               target == lastOp.cfg.calendarName
               missing == /\ target \notin {None, Some(<<>>)}
                          /\ \A i \in 1..n : name(i) # Get(target)
           IN  IF lastOp.fault \in {"connectFail", "listFail", "noHomes"}
               THEN ~r.success /\ IsSome(r.error) /\ r.calendars = None
               ELSE /\ r.success
                    /\ r.calendars = Some([i \in 1..n |-> name(i)])
                    /\ IsSome(r.error) <=> missing
                    /\ IsSome(r.error) =>
                          /\ Contains(Get(r.error), Get(target))
                          /\ \A i \in 1..n : Contains(Get(r.error), name(i))

\* The tester succeeded and reported the configured calendar as missing.
C8_Witness ==
    /\ lastOp.verb = "testConnection"
    /\ Get(lastOp.ret).success
    /\ IsSome(Get(lastOp.ret).error)

C9_Step ==
    lastOp'.verb = "testConnection" =>
        /\ clientCache' = EmptyMap
        /\ Len(lastOp'.trace) >= 2
        /\ lastOp'.trace[1] = Sent("clear")
        /\ lastOp'.trace[2].req = "connect"
        /\ \A i \in 2..Len(lastOp'.trace) : lastOp'.trace[i].req # "clear"

(* C9: every testConnection call clears the whole session cache before its *)
(* first request, then connects anew, and leaves the cache empty whatever  *)
(* its outcome.                                                            *)
C9_TesterClearsCache == [][C9_Step]_vars

\* The tester ran while sessions were cached; none is left.
C9_Witness ==
    /\ lastOp.verb = "testConnection"
    /\ lastOp.had # {}
    /\ clientCache = EmptyMap

(* C10: every cached session belongs to a client whose connect succeeded;  *)
(* a sync verb whose connect is rejected fails with NetworkError and the   *)
(* cache holds no session for its key, nor any session it did not hold.    *)
C10_OnlyConnectedCached ==
    /\ \A k \in DOMAIN clientCache : clientCache[k].client.connected
    /\ (lastOp.verb \in SyncVerbs /\ Rejected("connect") \in
            {lastOp.trace[i] : i \in 1..Len(lastOp.trace)})
          => /\ lastOp.res = "NetworkError"
             /\ ClientKey(lastOp.cfg) \notin DOMAIN clientCache
             /\ DOMAIN clientCache = lastOp.had

\* A connect was rejected while another session stayed cached.
C10_Witness ==
    /\ lastOp.verb \in SyncVerbs
    /\ lastOp.trace = <<Rejected("connect")>>
    /\ lastOp.res = "NetworkError"
    /\ clientCache # EmptyMap

\* The name of a listed calendar: its displayName when set, else the last
\* path segment of its URL.
NameOf(cal) ==
    IF cal.displayname \notin {None, Some(<<>>)} THEN Get(cal.displayname)
    ELSE LET u == IF cal.url # <<>> /\ cal.url[Len(cal.url)] = "/"
                  THEN SubSeq(cal.url, 1, Len(cal.url) - 1) ELSE cal.url
             slashes == {i \in 1..Len(u) : u[i] = "/"}
             last == IF slashes = {} THEN 0 ELSE CHOOSE i \in slashes : \A j \in slashes : j <= i
         IN  SubSeq(u, last + 1, Len(u))

(* C11: a sync verb that lists the calendars works on the first listed     *)
(* calendar whose name (displayName, else last URL segment) is the         *)
(* configured calendarName; when none has that name it fails with          *)
(* CalendarNotFound, opens an ERROR notification and the session holds no  *)
(* calendar under that name.                                               *)
C11_FirstMatchWins ==
    (lastOp.verb \in SyncVerbs /\ Did(lastOp, "list")) =>
        LET target == Get(lastOp.cfg.calendarName)
            at == {i \in 1..Len(srvCalendars) : NameOf(srvCalendars[i]) = target}
        IN  IF at # {}
            THEN /\ IsSome(lastOp.cal)
                 /\ \E i \in at : /\ lastOp.cal = Some(srvCalendars[i])
                                  /\ \A j \in at : i <= j
            ELSE /\ lastOp.res = "CalendarNotFound"
                 /\ \E i \in 1..Len(lastOp.notes) : lastOp.notes[i].type = "ERROR"
                 /\ Reqs(lastOp) \cap {"query", "create", "update", "delete"} = {}
                 /\ \A k \in DOMAIN clientCache :
                       target \notin DOMAIN clientCache[k].calendars

\* The name Work was resolved to the read-only calendar listed before the
\* writable one of the same name.
C11_Witness ==
    /\ lastOp.verb \in SyncVerbs
    /\ Did(lastOp, "list")
    /\ lastOp.cal = Some(CalShared)
    /\ srvCalendars[2] = CalWork

\* The timestamp with its milliseconds dropped.
WholeSecond(timestamp) == (timestamp \div MsPerSecond) * MsPerSecond

\* The stored date-time denotes the second of the provided timestamp.
SameSecond(provided, stored) ==
    IsSome(stored) /\ Instant(Get(stored)) = WholeSecond(Get(provided))

(* C12: updateTodo with {status: COMPLETED, percentComplete: 100} on an    *)
(* existing todo whose status is NEEDS-ACTION, the network answering and   *)
(* the object writable, writes the object back with STATUS COMPLETED, a    *)
(* COMPLETED date-time that reads the clock of the call, PERCENT-COMPLETE  *)
(* 100 and its SEQUENCE increased by one.                                  *)
C12_CompletedWritten ==
    (/\ lastOp.verb = "updateTodo"
     /\ lastOp.data = Some(TodoPartial(None, None, Some("COMPLETED"), Some(100), None, None))
     /\ IsSome(lastOp.pre)
     /\ Get(lastOp.pre).status = Some("NEEDS-ACTION")
     /\ lastOp.fault = "none")
        => /\ lastOp.res = "ok"
           /\ Did(lastOp, "update")
           /\ IsSome(lastOp.sent)
           /\ LET old == Get(lastOp.pre)
                  new == Get(lastOp.sent)
              IN  /\ new.status = Some("COMPLETED")
                  /\ SameSecond(Some(lastOp.now), new.completed)
                  /\ new.percent = Some(100)
                  /\ IsSome(old.sequence)
                  /\ new.sequence = Some(Get(old.sequence) + 1)
                  /\ srvObjects[Get(lastOp.cal).id][old.uid] = new

\* An open todo that was never completed before was completed by updateTodo.
C12_Witness ==
    /\ lastOp.verb = "updateTodo"
    /\ lastOp.data = Some(TodoPartial(None, None, Some("COMPLETED"), Some(100), None, None))
    /\ IsSome(lastOp.pre)
    /\ Get(lastOp.pre).status = Some("NEEDS-ACTION")
    /\ Get(lastOp.pre).completed = None
    /\ Did(lastOp, "update")

(* C13: from every reachable state of the session cache and the server,    *)
(* for every configuration, uid, clock and network scenario, completeTodo  *)
(* has the outcome, the requests, the notifications, the log lines and the *)
(* resulting session cache and remote objects of updateTodo with           *)
(* {status: COMPLETED, percentComplete: 100}.                              *)
C13_CompleteIsUpdate ==
    lastOp = Idle =>
        \A cfg \in CfgSet, uid \in {Uid1, Uid10}, fault \in Faults, now \in NowSet,
           first \in {Uid1, Uid10} :
            CompleteTodo(clientCache, srvObjects, srvCalendars, cfg, uid, fault, now, first)
            = UpdateTodo(clientCache, srvObjects, srvCalendars, cfg, uid,
                         TodoPartial(None, None, Some("COMPLETED"), Some(100), None, None),
                         fault, now, first)

\* completeTodo completed a todo that had been updated before.
C13_Witness ==
    /\ lastOp.verb = "completeTodo"
    /\ Did(lastOp, "update")
    /\ IsSome(lastOp.pre)
    /\ Get(lastOp.pre).sequence = Some(1)
    /\ Get(lastOp.sent).status = Some("COMPLETED")
    /\ Get(lastOp.sent).percent = Some(100)

(* C14: updateEvent on a located event that parses and can be written     *)
(* back issues an update request exactly when the payload has a start, an end or a        *)
(* description, or a summary that differs from the event's; what it sends  *)
(* carries the payload's start, end and description and keeps the summary  *)
(* unless the payload's differs.                                           *)
C14_WriteIffChange ==
    (/\ lastOp.verb = "updateEvent"
     /\ IsSome(lastOp.pre)
     /\ Get(lastOp.pre).text = "wellformed"
     /\ lastOp.fault # "noCap")
        => LET data == Get(lastOp.data)
               old == Get(lastOp.pre)
               differs == IsSome(data.summary) /\ data.summary # TextValue(old.summary)
           IN  /\ "update" \in Reqs(lastOp)
                     <=> \/ IsSome(data.start)
                         \/ IsSome(data.end)
                         \/ IsSome(data.description)
                         \/ differs
               /\ IsSome(lastOp.sent) =>
                     LET new == Get(lastOp.sent)
                     IN  /\ ~differs => new.summary = old.summary
                         /\ differs => TextValue(new.summary) = data.summary
                         /\ IsSome(data.start) => SameSecond(data.start, new.dtstart)
                         /\ IsSome(data.end) => SameSecond(data.end, new.dtend)
                         /\ ~IsSome(data.start) => new.dtstart = old.dtstart
                         /\ ~IsSome(data.end) => new.dtend = old.dtend
                         /\ IsSome(data.description)
                               => TextValue(new.description) = data.description
                         /\ ~IsSome(data.description) => new.description = old.description

\* A payload with nothing but the description the event has was written.
C14_Witness ==
    /\ lastOp.verb = "updateEvent"
    /\ IsSome(lastOp.pre)
    /\ lastOp.data = Some(SameDescription)
    /\ TextValue(Get(lastOp.pre).description) = Some(TextA)
    /\ Did(lastOp, "update")

C15_Step ==
    lastOp'.verb \in {"deleteEvent", "deleteTodo"} =>
        /\ lastOp'.res # "CalendarReadOnly"
        /\ \A i \in 1..Len(lastOp'.notes) : lastOp'.notes[i] # ReadOnlyNote
        /\ (/\ IsSome(lastOp'.cal)
            /\ Get(lastOp'.cal).readOnly
            /\ lastOp'.uid \in DOMAIN srvObjects[Get(lastOp'.cal).id]
            /\ srvObjects[Get(lastOp'.cal).id][lastOp'.uid].comp = CompOf(lastOp'.verb)
            /\ lastOp'.fault # "noCap")
              => /\ "delete" \in Reqs(lastOp')
                 /\ lastOp'.fault = "none"
                       => /\ lastOp'.res = "ok"
                          /\ Cardinality(DOMAIN srvObjects'[Get(lastOp'.cal).id])
                                = Cardinality(DOMAIN srvObjects[Get(lastOp'.cal).id]) - 1

(* C15: deleteEvent and deleteTodo never fail with CalendarReadOnly; when  *)
(* the resolved calendar is read-only and stores an object of the verb's   *)
(* kind under the uid, the delete request is issued all the same, and an   *)
(* answered one removes an object of that calendar.                        *)
C15_DeleteIgnoresReadOnly == [][C15_Step]_vars

\* An object was deleted from a calendar the server reports as read-only.
C15_Witness ==
    /\ lastOp.verb \in {"deleteEvent", "deleteTodo"}
    /\ IsSome(lastOp.cal)
    /\ Get(lastOp.cal).readOnly
    /\ Did(lastOp, "delete")
    /\ srvObjects[Get(lastOp.cal).id] = EmptyMap

(* C16: when updateEvent or updateTodo locates an object whose text cannot *)
(* be parsed as iCalendar, or that has no VEVENT/VTODO in it, the call     *)
(* logs the problem, returns to the caller without an error and issues no  *)
(* update request.                                                         *)
C16_MalformedIsSoft ==
    (/\ lastOp.verb \in {"updateEvent", "updateTodo"}
     /\ IsSome(lastOp.pre)
     /\ Get(lastOp.pre).text # "wellformed")
        => /\ lastOp.res = "ok"
           /\ lastOp.logs # <<>>
           /\ "update" \notin Reqs(lastOp)
           /\ srvObjects[Get(lastOp.cal).id][Get(lastOp.pre).uid] = Get(lastOp.pre)

\* The parser's exception reached the caller of updateEvent; nothing was logged.
C16_Witness ==
    /\ lastOp.verb = "updateEvent"
    /\ IsSome(lastOp.pre)
    /\ Get(lastOp.pre).text = "unparseable"
    /\ lastOp.res = "ParserError"
    /\ lastOp.logs = <<>>
    /\ lastOp.notes = <<>>

\* The stored date-time is a UTC value that denotes the second of the timestamp.
UtcOf(timestamp, stored) ==
    /\ IsSome(stored)
    /\ Get(stored).form = "UTC"
    /\ Get(stored).sec * MsPerSecond = WholeSecond(timestamp)

(* C17: every date-time a create verb writes (DTSTAMP, CREATED, DTSTART,   *)
(* DTEND, DUE) and every date-time an update verb writes (DTSTART, DTEND,  *)
(* DUE, DTSTAMP, LAST-MODIFIED, COMPLETED) is a UTC value, ending in Z,    *)
(* that denotes the given instant; none is a floating local time.          *)
C17_AllUtc ==
    (lastOp.verb \in SyncVerbs /\ IsSome(lastOp.sent)) =>
        LET new == Get(lastOp.sent)
            data == Get(lastOp.data)
        IN  /\ UtcOf(lastOp.now, new.dtstamp)
            /\ lastOp.verb = "createEvent"
                  => UtcOf(data.start, new.dtstart) /\ UtcOf(data.end, new.dtend)
            /\ lastOp.verb = "createTodo"
                  => /\ UtcOf(lastOp.now, new.created)
                     /\ IsSome(data.dueDate) => UtcOf(Get(data.dueDate), new.due)
            /\ lastOp.verb = "updateEvent"
                  => /\ UtcOf(lastOp.now, new.lastModified)
                     /\ IsSome(data.start) => UtcOf(Get(data.start), new.dtstart)
                     /\ IsSome(data.end) => UtcOf(Get(data.end), new.dtend)
            /\ lastOp.verb \in {"updateTodo", "completeTodo"}
                  => /\ UtcOf(lastOp.now, new.lastModified)
                     /\ IsSome(data.dueDate) => UtcOf(Get(data.dueDate), new.due)
                     /\ data.status = Some("COMPLETED") => UtcOf(lastOp.now, new.completed)

\* updateEvent stored a start as a floating local time beside the UTC end
\* the event was created with.
C17_Witness ==
    /\ lastOp.verb = "updateEvent"
    /\ Did(lastOp, "update")
    /\ IsSome(Get(lastOp.data).start)
    /\ Get(Get(lastOp.sent).dtstart).form = "floating"
    /\ IsSome(Get(lastOp.sent).dtend)
    /\ Get(Get(lastOp.sent).dtend).form = "UTC"
    /\ srvObjects[Get(lastOp.cal).id][Get(lastOp.pre).uid] = Get(lastOp.sent)

\* The call opened a notification of type ERROR.
ErrorShown(op) == \E i \in 1..Len(op.notes) : op.notes[i].type = "ERROR"

(* C18: a sync verb that fails with NotConfigured, CalendarNotFound,       *)
(* CalendarReadOnly or a network error opens an ERROR notification; a      *)
(* rejected connect, listing, locate query, create, update or delete       *)
(* request is such a failure.                                              *)
C18_FailureNotified ==
    (/\ lastOp.verb \in SyncVerbs
     /\ \/ lastOp.res \in {"NotConfigured", "CalendarNotFound", "CalendarReadOnly",
                           "NetworkError"}
        \/ \E i \in 1..Len(lastOp.trace) : ~lastOp.trace[i].ok)
        => /\ lastOp.res # "ok"
           /\ ErrorShown(lastOp)

\* The locate query of a delete was rejected: the caller got an error and no
\* notification was opened.
C18_Witness ==
    /\ lastOp.verb = "deleteEvent"
    /\ lastOp.trace # <<>>
    /\ lastOp.trace[Len(lastOp.trace)] = Rejected("query")
    /\ lastOp.res # "ok"
    /\ lastOp.notes = <<>>

\* The other of the two passwords in use, for a password in use.
OtherPassword(password) ==
    IF password = <<"pw">> THEN <<"pw2">>
    ELSE IF password = <<"pw2">> THEN <<"pw">>
    ELSE password

\* The configuration with its password replaced, when it has a non-empty one.
Repassword(cfg) ==
    [cfg EXCEPT !.password = IF IsSome(@) THEN Some(OtherPassword(Get(@))) ELSE @]

\* The session key of the same server and user under the replaced password.
RepasswordKey(key) ==
    IF key = <<>> THEN key
    ELSE [key EXCEPT ![Len(key)] = Head(OtherPassword(<<key[Len(key)]>>))]

\* The session cache of a run in which every password is replaced.
RepasswordCache(cache) ==
    [k \in {RepasswordKey(k0) : k0 \in DOMAIN cache} |-> cache[RepasswordKey(k)]]

\* The outcome of a verb of the service on the given state.
Run(verb, cache, cfg, uid, data, fault, now) ==
    CASE verb = "createEvent" ->
            CreateEvent(cache, srvObjects, srvCalendars, cfg, Get(data), fault, now, Uuid)
      [] verb = "createTodo" ->
            CreateTodo(cache, srvObjects, srvCalendars, cfg, Get(data), fault, now, Uuid)
      [] verb = "updateEvent" ->
            UpdateEvent(cache, srvObjects, srvCalendars, cfg, uid, Get(data), fault, now, Uid1)
      [] verb = "updateTodo" ->
            UpdateTodo(cache, srvObjects, srvCalendars, cfg, uid, Get(data), fault, now, Uid1)
      [] verb = "completeTodo" ->
            CompleteTodo(cache, srvObjects, srvCalendars, cfg, uid, fault, now, Uid1)
      [] verb = "deleteEvent" ->
            DeleteEvent(cache, srvObjects, srvCalendars, cfg, uid, fault, Uid1)
      [] verb = "deleteTodo" ->
            DeleteTodo(cache, srvObjects, srvCalendars, cfg, uid, fault, Uid1)
      [] OTHER -> TestConnection(cache, cfg, fault, srvCalendars)

C19_Step ==
    lastOp'.verb # "idle" =>
        \A other \in {Run(lastOp'.verb, RepasswordCache(clientCache),
                           Repassword(lastOp'.cfg), lastOp'.uid, lastOp'.data,
                           lastOp'.fault, lastOp'.now)} :
            /\ other.logs = lastOp'.logs
            /\ other.notes = lastOp'.notes
            /\ other.res = lastOp'.res
            /\ other.ret = lastOp'.ret
            /\ other.trace = lastOp'.trace
            /\ lastOp'.verb \in SyncVerbs => other.objs = srvObjects'
            /\ other.cache = RepasswordCache(clientCache')

(* C19: the log lines, notifications, error and result of a call do not    *)
(* depend on the value of a configured (non-empty) password: the same call *)
(* in a run where every password is replaced by another, from the          *)
(* corresponding state, produces the same log lines, notifications, error, *)
(* result and requests; the configuration is logged with the password      *)
(* replaced by ***.                                                        *)
C19_PasswordNotObserved == [][C19_Step]_vars

\* A create verb logged its configuration, found its session and wrote.
C19_Witness ==
    /\ lastOp.verb \in CreateVerbs
    /\ lastOp.cfg.password = Some(<<"pw2">>)
    /\ lastOp.logs # <<>>
    /\ lastOp.logs[1].cfg.password = Some(<<"***">>)
    /\ lastOp.had # {}
    /\ "connect" \notin Reqs(lastOp)
    /\ Did(lastOp, "create")

\* How many requests of these kinds the call issued.
Issued(op, kinds) == Cardinality({i \in 1..Len(op.trace) : op.trace[i].req \in kinds})

(* C20: one call of a sync verb issues at most one connect, one listing,   *)
(* one locate query and one write, in that order; a request that is        *)
(* rejected is the last one the call issues, and the call then ends with   *)
(* an error for the caller and no returned value.                          *)
C20_NoRetry ==
    lastOp.verb \in SyncVerbs =>
        /\ Issued(lastOp, {"connect"}) <= 1
        /\ Issued(lastOp, {"list"}) <= 1
        /\ Issued(lastOp, {"query"}) <= 1
        /\ Issued(lastOp, {"create", "update", "delete"}) <= 1
        /\ Issued(lastOp, {"connect", "list", "query", "create", "update", "delete"})
              = Len(lastOp.trace)
        /\ \A i \in 1..Len(lastOp.trace) :
              ~lastOp.trace[i].ok
                 => /\ i = Len(lastOp.trace)
                    /\ lastOp.res # "ok"
                    /\ lastOp.ret = None
        /\ lastOp.res = "ok" => \A i \in 1..Len(lastOp.trace) : lastOp.trace[i].ok

\* The listing was rejected after an answered connect: the call ended there.
C20_Witness ==
    /\ lastOp.verb \in SyncVerbs
    /\ lastOp.trace = <<Sent("connect"), Rejected("list")>>
    /\ lastOp.res = "NetworkError"

\* The calendar is the first one listed under that name.
FirstNamed(cal, name) ==
    \E i \in 1..Len(srvCalendars) :
        /\ srvCalendars[i] = cal
        /\ NameOf(cal) = name
        /\ \A j \in 1..(i - 1) : NameOf(srvCalendars[j]) # name

(* C21: under every interleaving of calls that use one server, user and    *)
(* password, the cache holds one session under the key, a connected one;   *)
(* every call proceeds with a connected session and with the first         *)
(* calendar listed under its calendarName; a call issues at most one       *)
(* connect and one listing, and it fails only by a rejected request of its *)
(* own, by a name no calendar has, or by a read-only calendar.             *)
C21_RaceHarmless ==
    /\ Cardinality(DOMAIN clientCache) <= 1
    /\ \A k \in DOMAIN clientCache :
          /\ clientCache[k].client.connected
          /\ clientCache[k].sid \in DOMAIN sessions
          /\ clientCache[k].calendars = sessions[clientCache[k].sid].calendars
    /\ \A s \in DOMAIN sessions : \A r \in DOMAIN sessions[s].calendars :
          FirstNamed(sessions[s].calendars[r], r)
    /\ \A p \in Procs :
          threads[p] # NoThread =>
             LET t == threads[p]
                 name == Get(t.cfg.calendarName)
             IN  /\ IsSome(t.sid) => /\ Get(t.sid) \in DOMAIN sessions
                                     /\ sessions[Get(t.sid)].client.connected
                 /\ t.pc \in {"gotClient", "listing", "gotCalendar", "querying", "writing"}
                       => IsSome(t.sid)
                 /\ t.pc \in {"gotCalendar", "querying", "writing"} => IsSome(t.cal)
                 /\ IsSome(t.cal) => FirstNamed(Get(t.cal), name)
                 /\ Issued(t, {"connect"}) <= 1
                 /\ Issued(t, {"list"}) <= 1
                 /\ (t.pc = "done" /\ t.res # "ok")
                       => \/ t.trace # <<>> /\ ~t.trace[Len(t.trace)].ok
                          \/ /\ t.res = "CalendarNotFound"
                             /\ \A i \in 1..Len(srvCalendars) : NameOf(srvCalendars[i]) # name
                          \/ /\ t.res = "CalendarReadOnly"
                             /\ t.verb = "updateEvent"
                             /\ Get(t.cal).readOnly

\* Both callers missed the cache and connected; the first caller's session
\* was replaced in the cache, and both calls ended well on their calendars.
C21_Witness ==
    /\ \A p \in Procs :
          /\ threads[p].pc = "done"
          /\ threads[p].res = "ok"
          /\ Did(threads[p], "connect")
          /\ Did(threads[p], "list")
    /\ threads[1].cal # threads[2].cal
    /\ threads[1].sid # threads[2].sid

\* The SEQUENCE an object carries; an object without the property counts as 0.
SequenceOf(object) == IF IsSome(object.sequence) THEN Get(object.sequence) ELSE 0

(* C22: every update write the server accepted stored a SEQUENCE strictly  *)
(* greater than the SEQUENCE the server held for the object when the write *)
(* arrived, also when two updates of one uid are in flight together.       *)
C22_SequenceGrows ==
    \A p \in Procs :
        LET t == threads[p]
        IN  (/\ t # NoThread
             /\ t.pc = "done"
             /\ t.verb = "updateEvent"
             /\ Did(t, "update")
             /\ IsSome(t.before))
               => SequenceOf(Get(t.sent)) > SequenceOf(Get(t.before))

\* Two updates located the event at the same SEQUENCE; the second write was
\* accepted over the first and stored the SEQUENCE the server already held.
C22_Witness ==
    \E p \in Procs :
        LET t == threads[p]
        IN  /\ t # NoThread
            /\ t.pc = "done"
            /\ t.verb = "updateEvent"
            /\ Did(t, "update")
            /\ IsSome(t.before)
            /\ Get(t.before) # Get(t.pre)
            /\ SequenceOf(Get(t.before)) = SequenceOf(Get(t.pre)) + 1
            /\ SequenceOf(Get(t.sent)) = SequenceOf(Get(t.before))

(* C23: for every text over backslash, semicolon, comma, newline and        *)
(* letters, unescaping what _escapeIcalText returns gives the text again,  *)
(* and the four replacements, the backslash first, escape each character   *)
(* once: the result is what one scan over the text would write.            *)
C23_EscapeRoundTrip ==
    lastOp.verb = "parsedText"
        => /\ lastOp.value = lastOp.text
           /\ lastOp.raw = IcalEscape(lastOp.text)

\* A backslash before the letter n, then a newline, was escaped and read back.
C23_Witness ==
    /\ lastOp.verb = "parsedText"
    /\ lastOp.text = <<"\\", "n", "\n">>
    /\ lastOp.raw = <<"\\", "\\", "n", "\\", "n">>

\* The parsed object gives the summary of the record, and its description
\* when the record has a non-empty one.
ParsedTexts ==
    /\ lastOp.summary = Some(lastOp.data.summary)
    /\ Truthy(lastOp.data.description) => lastOp.description = lastOp.data.description

(* C24: parsing the ICS text built from an event or todo record gives the  *)
(* summary of the record, the start and end (or due) of the record cut to  *)
(* the whole second, and its description; a record with no description or  *)
(* an empty one parses to an object without description.                   *)
C24_BuildParseRoundTrip ==
    lastOp.verb = "parsed"
        => /\ ParsedTexts
           /\ ~Truthy(lastOp.data.description) => lastOp.description = None
           /\ lastOp.comp = "VEVENT"
                 => /\ SameSecond(Some(lastOp.data.start), lastOp.dtstart)
                    /\ SameSecond(Some(lastOp.data.end), lastOp.dtend)
           /\ lastOp.comp = "VTODO"
                 => IF IsSome(lastOp.data.dueDate)
                    THEN SameSecond(lastOp.data.dueDate, lastOp.due)
                    ELSE lastOp.due = None

(* C24 as stated: the parsed object has the very instants and the very     *)
(* description of the record.                                              *)
C24_ExactRoundTrip ==
    lastOp.verb = "parsed"
        => /\ ParsedTexts
           /\ lastOp.description = lastOp.data.description
           /\ lastOp.comp = "VEVENT"
                 => /\ SameInstant(Some(lastOp.data.start), lastOp.dtstart)
                    /\ SameInstant(Some(lastOp.data.end), lastOp.dtend)
           /\ lastOp.comp = "VTODO"
                 => IF IsSome(lastOp.data.dueDate)
                    THEN SameInstant(lastOp.data.dueDate, lastOp.due)
                    ELSE lastOp.due = None

\* An event whose end is half a second past the second and whose summary and
\* description hold a semicolon was built and parsed.
C24_Witness ==
    /\ lastOp.verb = "parsed"
    /\ lastOp.comp = "VEVENT"
    /\ lastOp.data.summary = TextB
    /\ lastOp.data.description = Some(TextB)
    /\ lastOp.data.end = Time2
    /\ Instant(Get(lastOp.dtend)) = Time2 - 500

\* The properties of a stored object that the fields of an update payload name.
NamedProps(verb, data) ==
    (IF IsSome(data.summary) THEN {"summary"} ELSE {})
    \cup (IF IsSome(data.description) THEN {"description"} ELSE {})
    \cup (IF verb = "updateEvent"
          THEN (IF IsSome(data.start) THEN {"dtstart"} ELSE {})
               \cup (IF IsSome(data.end) THEN {"dtend"} ELSE {})
          ELSE (IF IsSome(data.status) THEN {"status"} ELSE {})
               \cup (IF IsSome(data.percentComplete) THEN {"percent"} ELSE {})
               \cup (IF IsSome(data.priority) THEN {"priority"} ELSE {})
               \cup (IF IsSome(data.dueDate) THEN {"due"} ELSE {})
               \cup (IF data.status = Some("COMPLETED") THEN {"completed"} ELSE {}))

\* The properties an update stamps whatever the payload.
StampedProps == {"lastModified", "dtstamp", "sequence"}

(* C25: the object an update verb writes back has the UID and the          *)
(* component of the object it located, and every property the payload does *)
(* not name is as it was located, except LAST-MODIFIED, DTSTAMP and        *)
(* SEQUENCE, and COMPLETED when the payload status is COMPLETED.           *)
C25_UpdateFrame ==
    (/\ lastOp.verb \in UpdateVerbs
     /\ IsSome(lastOp.pre)
     /\ IsSome(lastOp.sent))
        => LET pre == Get(lastOp.pre)
               sent == Get(lastOp.sent)
               named == NamedProps(lastOp.verb, Get(lastOp.data))
           IN  /\ sent.uid = pre.uid
               /\ \A f \in (DOMAIN pre \ StampedProps) \ named : sent[f] = pre[f]
               /\ DOMAIN sent = DOMAIN pre

\* A rename wrote back an event that has a description, under its uid.
C25_Witness ==
    /\ lastOp.verb = "updateEvent"
    /\ Did(lastOp, "update")
    /\ Get(lastOp.data) = RenameEvent
    /\ Get(lastOp.pre).description = Some(EscapeIcalText(TextA))
    /\ Get(lastOp.sent).description = Get(lastOp.pre).description
    /\ Get(lastOp.sent).summary # Get(lastOp.pre).summary
    /\ Get(lastOp.sent).uid = Uid1

\* The object the calendar named in BaseCfg holds for the task, if any.
TaskObject(id) ==
    IF TaskUid(id) \in DOMAIN srvObjects[CalWork.id]
    THEN Some(srvObjects[CalWork.id][TaskUid(id)]) ELSE None

(* C26: the sync call the effects issue for a newly added main task under  *)
(* a valid configuration with syncTodos is createTodo, and once it has     *)
(* settled well the server holds a VTODO for the task.                     *)
C26_AddTaskWritesTodo ==
    /\ \A call \in inflight : call.effect = "createEventOnAddTask" => call.verb = "createTodo"
    /\ (/\ lastOp.verb = "settled"
        /\ lastOp.call.effect = "createEventOnAddTask"
        /\ lastOp.res = "ok")
          => \E id \in TaskIds : /\ IsSome(TaskObject(id))
                                 /\ Get(TaskObject(id)).comp = "VTODO"

\* The call for an added main task settled well and the task's object on the
\* server is a VEVENT that starts at the next full hour.
C26_Witness ==
    /\ lastOp.verb = "settled"
    /\ lastOp.call.effect = "createEventOnAddTask"
    /\ lastOp.res = "ok"
    /\ \E id \in DOMAIN tasks :
          /\ tasks[id].calendarEventUid = Some(TaskUid(id))
          /\ tasks[id].parentId = None
          /\ IsSome(TaskObject(id))
          /\ Get(TaskObject(id)).comp = "VEVENT"
          /\ \E now \in NowSet :
                Get(TaskObject(id)).dtstart = Some(FormatIcalDateTime(NextFullHour(now)))

\* "sp-task-" followed by the task id.
SpTask(id) == <<"sp-task-">> \o id

(* C27: every create call of the effects carries the uid "sp-task-" + the  *)
(* id of its task; when such a call has settled well the task, if it is    *)
(* still in the store, has that uid as calendarEventUid; and in every      *)
(* state the calendarEventUid of a task is null or "sp-task-" + its id.    *)
C27_UidFromTaskId ==
    /\ \A call \in inflight :
          call.verb = "createEvent" => /\ call.uid = SpTask(call.id)
                                       /\ Get(call.data).uid = SpTask(call.id)
    /\ \A id \in DOMAIN tasks : tasks[id].calendarEventUid \in {None, Some(SpTask(id))}
    /\ (/\ lastOp.verb = "settled"
        /\ lastOp.call.verb = "createEvent"
        /\ lastOp.res = "ok"
        /\ lastOp.call.id \in DOMAIN tasks)
          => tasks[lastOp.call.id].calendarEventUid = Some(SpTask(lastOp.call.id))

\* The create call of a scheduled task settled well: the task that had no
\* calendarEventUid has sp-task-1, and the server holds an event under it.
C27_Witness ==
    /\ lastOp.verb = "settled"
    /\ lastOp.call.effect = "createEventOnSchedule"
    /\ lastOp.res = "ok"
    /\ lastOp.before[<<"1">>].calendarEventUid = None
    /\ <<"1">> \in DOMAIN tasks
    /\ tasks[<<"1">>].calendarEventUid = Some(<<"sp-task-", "1">>)
    /\ <<"sp-task-", "1">> \in DOMAIN srvObjects[CalWork.id]

(* C28: when a sync call of an effect has failed, the call is not in       *)
(* flight again, the task store is as it was before the call settled, and  *)
(* every effect stream is still subscribed; a task event that follows      *)
(* under an enabled configuration is given its sync call as any other.     *)
C28_FailureDropped ==
    /\ streams = Effects
    /\ (lastOp.verb = "settled" /\ lastOp.res # "ok")
          => /\ lastOp.call \notin inflight
             /\ tasks = lastOp.before
    /\ (/\ lastOp.verb \in {"scheduleTaskWithTime", "reScheduleTaskWithTime"}
        /\ IsEnabled(lastOp.cfg))
          => /\ Cardinality(lastOp.calls) = 1
             /\ lastOp.calls \subseteq inflight

\* The create call of a scheduled task failed and was dropped; the
\* reschedule that followed issued a create call of its own.
C28_Witness ==
    /\ lastOp.verb = "reScheduleTaskWithTime"
    /\ lastOp.prev = Some("NetworkError")
    /\ lastOp.task.calendarEventUid = None
    /\ \E call \in inflight :
          /\ inflight = {call}
          /\ call.effect = "updateEventOnReschedule"
          /\ call.verb = "createEvent"
    /\ \A c \in CalIds : srvObjects[c] = EmptyMap

\* The end the effects give an event of the task that starts at start.
ExpectedEnd(task, start) ==
    start + (IF task.timeEstimate = 0 THEN 3600000 ELSE task.timeEstimate)

(* C29: a reschedule event under an enabled valid configuration makes the  *)
(* effects issue exactly one sync call: for a task without                 *)
(* calendarEventUid a createEvent with uid "sp-task-" + task id, otherwise *)
(* an updateEvent on the task's calendarEventUid whose payload has start   *)
(* and end and nothing else; end is start + the task's estimate, or start  *)
(* + one hour when the estimate is zero.                                   *)
C29_RescheduleOneCall ==
    (/\ lastOp.verb = "reScheduleTaskWithTime"
     /\ lastOp.cfg \in ValidCfgs \cup {[BaseCfg EXCEPT !.syncTodos = TRUE]})
        => \E call \in inflight :
              /\ lastOp.calls = {call}
              /\ IF lastOp.task.calendarEventUid = None
                 THEN /\ call.verb = "createEvent"
                      /\ call.uid = SpTask(lastOp.id)
                      /\ Get(call.data).uid = SpTask(lastOp.id)
                      /\ Get(call.data).start = Get(lastOp.arg)
                      /\ Get(call.data).end = ExpectedEnd(lastOp.task, Get(lastOp.arg))
                 ELSE /\ call.verb = "updateEvent"
                      /\ call.uid = Get(lastOp.task.calendarEventUid)
                      /\ Get(call.data) =
                            [summary |-> None, description |-> None,
                             start |-> lastOp.arg,
                             end |-> Some(ExpectedEnd(lastOp.task, Get(lastOp.arg)))]

\* A task with an event and no estimate was rescheduled, with syncTodos on:
\* one updateEvent with the new start and the end an hour later is in flight.
C29_Witness ==
    /\ lastOp.verb = "reScheduleTaskWithTime"
    /\ lastOp.cfg.syncTodos
    /\ lastOp.task.calendarEventUid = Some(<<"sp-task-", "1">>)
    /\ lastOp.task.timeEstimate = 0
    /\ \E call \in inflight :
          /\ lastOp.calls = {call}
          /\ call.verb = "updateEvent"
          /\ Get(call.data).start = Some(Time2)
          /\ Get(call.data).end = Some(Time2 + 3600000)

\* The effects that delete the event of a task on unschedule and on done.
ResetEffects ==
    {"deleteEventOnUnschedule", "deleteEventOnTaskDone", "deleteSyncedEventOnTaskDone"}

\* The last task event was an unschedule or a done.
UnscheduledOrDone ==
    \/ lastOp.verb = "unscheduleTask"
    \/ lastOp.verb = "updateTask" /\ lastOp.arg = Some([isDone |-> TRUE])

(* C30: an unschedule or a done event leaves calendarEventUid as it is and *)
(* issues deleteEvent calls on that uid only, none for a task without one  *)
(* and at least one under an enabled configuration; when such a call has   *)
(* settled well, an object found and deleted or none found, the task's     *)
(* calendarEventUid is null; when it has failed the store is unchanged;    *)
(* and no other step of the effects turns a calendarEventUid into null.    *)
C30_ResetAfterDelete ==
    /\ UnscheduledOrDone
          => /\ tasks[lastOp.id].calendarEventUid = lastOp.task.calendarEventUid
             /\ lastOp.task.calendarEventUid = None => lastOp.calls = {}
             /\ \A call \in lastOp.calls :
                   /\ call.verb = "deleteEvent"
                   /\ Some(call.uid) = lastOp.task.calendarEventUid
                   /\ call.effect \in ResetEffects
             /\ (lastOp.task.calendarEventUid # None /\ lastOp.cfg.isEnabled)
                   => lastOp.calls # {}
    /\ (lastOp.verb = "settled" /\ lastOp.call.effect \in ResetEffects)
          => IF lastOp.res = "ok"
             THEN lastOp.call.id \in DOMAIN tasks
                     => tasks[lastOp.call.id].calendarEventUid = None
             ELSE tasks = lastOp.before
    /\ lastOp.verb = "settled"
          => \A id \in DOMAIN tasks \cap DOMAIN lastOp.before :
                (tasks[id].calendarEventUid = None
                 /\ lastOp.before[id].calendarEventUid # None)
                   => /\ lastOp.call.verb = "deleteEvent"
                      /\ lastOp.call.effect \in ResetEffects
                      /\ lastOp.res = "ok"
    /\ (lastOp.verb \notin {"settled", "idle", "deleteTask"} /\ lastOp.id \in DOMAIN tasks)
          => tasks[lastOp.id].calendarEventUid = lastOp.task.calendarEventUid

\* The delete call of an unscheduled task settled well: the task had
\* sp-task-1, has null now, and the server holds no object for it.
C30_Witness ==
    /\ lastOp.verb = "settled"
    /\ lastOp.call.effect = "deleteEventOnUnschedule"
    /\ lastOp.res = "ok"
    /\ lastOp.before[<<"1">>].calendarEventUid = Some(<<"sp-task-", "1">>)
    /\ tasks[<<"1">>].calendarEventUid = None
    /\ tasks[<<"1">>].dueWithTime = None
    /\ \A c \in CalIds : srvObjects[c] = EmptyMap

(* C31: a call is served by a cached session only if the session's client  *)
(* was constructed with the server, the user and the password of the       *)
(* call's configuration, each equal to the other's, also when a user name  *)
(* or a password holds the character "|".                                  *)
C31_SessionPerTriple ==
    (/\ lastOp # Idle
     /\ lastOp.res \notin {"NotConfigured", "NetworkError"}
     /\ ClientKey(lastOp.cfg) \in DOMAIN sessions)
        => sessions[ClientKey(lastOp.cfg)] = Credentials(lastOp.cfg)

\* The call of user bob|x with password pw issued no connect: it was served
\* by the session of user bob with password x|pw.
C31_Witness ==
    /\ lastOp # Idle
    /\ lastOp.res = "ok"
    /\ lastOp.cfg.username = Some(<<"bob", "|", "x">>)
    /\ \A i \in 1..Len(lastOp.trace) : lastOp.trace[i].req # "connect"
    /\ sessions[ClientKey(lastOp.cfg)]
          = <<BaseCfg.caldavUrl, Some(<<"bob">>), Some(<<"x", "|", "pw">>)>>

(* C32: once testConnection has cleared the cache, the cache holds no      *)
(* session whose connect was started before the clear: a call that awaited *)
(* its connect when the cache was cleared does not store its session.      *)
C32_NoSessionFromBeforeClear ==
    lastOp # Idle
        => \A k \in DOMAIN clientCache : ~sessions[clientCache[k].sid].beforeClear

\* The tester has cleared the cache and the cache holds the session of a
\* call that was awaiting its connect at that moment.
C32_Witness ==
    /\ lastOp # Idle
    /\ \E k \in DOMAIN clientCache :
          /\ sessions[clientCache[k].sid].beforeClear
          /\ sessions[clientCache[k].sid].client.connected

\* The component an update or delete verb asks the server for.
OwnComponent(verb) == IF verb \in {"updateEvent", "deleteEvent"} THEN "VEVENT" ELSE "VTODO"

(* C33: the object an update or delete verb called with uid u rewrites or  *)
(* deletes has the UID u and the component of the verb, whichever of the   *)
(* objects the server's text-match query returns it lists first.           *)
C33_OnlyOwnObject ==
    (/\ lastOp.verb \in UpdateVerbs \cup {"deleteEvent", "deleteTodo"}
     /\ (Did(lastOp, "update") \/ Did(lastOp, "delete")))
        => /\ Get(lastOp.pre).uid = lastOp.uid
           /\ Get(lastOp.pre).comp = OwnComponent(lastOp.verb)

\* deleteEvent for sp-task-1 deleted the event sp-task-10, and the event
\* sp-task-1 is still on the server.
C33_Witness ==
    /\ lastOp.verb = "deleteEvent"
    /\ lastOp.uid = Uid1
    /\ Did(lastOp, "delete")
    /\ Get(lastOp.pre).uid = Uid10
    /\ Get(lastOp.pre).comp = "VEVENT"
    /\ Uid10 \notin DOMAIN srvObjects[Get(lastOp.cal).id]
    /\ Uid1 \in DOMAIN srvObjects[Get(lastOp.cal).id]

\* The call ended without an error and logged that line.
Logged(op, msgs) ==
    /\ op.res = "ok"
    /\ \E i \in 1..Len(op.logs) : op.logs[i].lvl = "log" /\ op.logs[i].msg \in msgs

(* C34: an update verb that logs "Updated" and returns without an error    *)
(* has issued exactly one update write, and a delete verb that logs        *)
(* "Deleted" and returns without an error has issued exactly one delete,   *)
(* also when the located object has no update or delete function.          *)
C34_LoggedMeansWritten ==
    /\ (lastOp.verb \in UpdateVerbs /\ Logged(lastOp, {"Updated event", "Updated VTODO"}))
          => Did(lastOp, "update") /\ Issued(lastOp, {"update"}) = 1
    /\ (lastOp.verb \in {"deleteEvent", "deleteTodo"}
           /\ Logged(lastOp, {"Deleted event", "Deleted VTODO"}))
          => Did(lastOp, "delete") /\ Issued(lastOp, {"delete"}) = 1

\* deleteEvent located an object without a delete function, logged
\* "Deleted event", and the object is still on the server.
C34_Witness ==
    /\ lastOp.verb = "deleteEvent"
    /\ lastOp.fault = "noCap"
    /\ Logged(lastOp, {"Deleted event"})
    /\ Issued(lastOp, {"delete"}) = 0
    /\ Get(lastOp.pre).uid \in DOMAIN srvObjects[Get(lastOp.cal).id]

(* C35: one task event (task done, task deleted, title changed) starts at  *)
(* most one sync call for the task's calendarEventUid, also when syncTodos *)
(* is on and the uid starts with sp-task-.                                 *)
C35_OneCallPerEvent ==
    lastOp.verb \in {"updateTask", "deleteTask"}
        => \A c \in lastOp.calls, d \in lastOp.calls : c.uid = d.uid => c = d

\* The deletion of a task whose uid starts with sp-task-, under syncTodos,
\* started two deleteEvent calls for that uid, one by each delete effect.
C35_Witness ==
    /\ lastOp.verb = "deleteTask"
    /\ lastOp.cfg.syncTodos
    /\ \E c \in lastOp.calls, d \in lastOp.calls :
          /\ c.effect = "deleteEventOnTaskDelete"
          /\ d.effect = "deleteSyncedEventOnTaskDelete"
          /\ c.verb = "deleteEvent" /\ d.verb = "deleteEvent"
          /\ c.uid = TaskUid(lastOp.id) /\ d.uid = c.uid
          /\ {c, d} \subseteq inflight

\* The create call of a schedule or an add has just settled well, it was
\* the last call in flight, and no call of the effects has failed.
CreateSettledLast ==
    /\ lastOp.verb = "settled"
    /\ lastOp.call.verb = "createEvent"
    /\ lastOp.res = "ok"
    /\ inflight = {}
    /\ errLog = {}

(* C36: a task is scheduled, or added under syncTodos, and is unscheduled  *)
(* or deleted while the create call is in flight; once every call has      *)
(* settled and none has failed, the server holds no event sp-task-<id>.    *)
C36_NoEventLeft ==
    (/\ CreateSettledLast
     /\ \/ lastOp.call.id \notin DOMAIN tasks
        \/ tasks[lastOp.call.id].dueWithTime = None)
        => TaskObject(lastOp.call.id) = None

\* The task was unscheduled while its create was in flight: it had no
\* calendarEventUid to delete by, and the event is on the server for good.
C36_Witness ==
    /\ CreateSettledLast
    /\ lastOp.call.effect = "createEventOnSchedule"
    /\ lastOp.call.id \in DOMAIN tasks
    /\ lastOp.before[lastOp.call.id].dueWithTime = None
    /\ lastOp.before[lastOp.call.id].calendarEventUid = None
    /\ tasks[lastOp.call.id].calendarEventUid = Some(TaskUid(lastOp.call.id))
    /\ IsSome(TaskObject(lastOp.call.id))
    /\ Get(TaskObject(lastOp.call.id)).comp = "VEVENT"

(* C37: the effects issue no create write for a uid whose object is on the *)
(* server: after a create for sp-task-<id> has succeeded no createEvent    *)
(* for that uid is sent until the object is deleted; a task added under    *)
(* syncTodos and then scheduled with a time gives one create, not two.     *)
C37_NoSecondCreate ==
    (/\ lastOp.verb = "settled"
     /\ lastOp.call.verb = "createEvent"
     /\ "create" \in Reqs(lastOp))
        => ~lastOp.existed

\* The task was added under syncTodos and scheduled before that create had
\* settled: the create of the schedule was sent when the add's event was
\* already stored and the task had its calendarEventUid.
C37_Witness ==
    /\ lastOp.verb = "settled"
    /\ lastOp.call.effect = "createEventOnSchedule"
    /\ lastOp.call.verb = "createEvent"
    /\ "create" \in Reqs(lastOp)
    /\ lastOp.existed
    /\ lastOp.call.uid = TaskUid(lastOp.call.id)
    /\ lastOp.call.id \in DOMAIN lastOp.before
    /\ lastOp.before[lastOp.call.id].calendarEventUid = Some(lastOp.call.uid)
    /\ IsSome(TaskObject(lastOp.call.id))

\* The names the tester derives from the listing the server gives now.
ListedNames == [i \in 1..Len(srvCalendars) |-> CalendarName(srvCalendars[i])]

(* C38: on one listing and for one non-empty calendarName, testConnection  *)
(* reports success without an error exactly when _getCalendar finds a      *)
(* calendar: a tester that has listed passes exactly the names the         *)
(* resolver's find resolves, and a sync verb that has listed fails with    *)
(* CalendarNotFound exactly for the names the tester's check misses.       *)
C38_TesterAgreesWithResolver ==
    /\ (/\ lastOp.verb = "testConnection"
        /\ Truthy(lastOp.cfg.calendarName)
        /\ Did(lastOp, "list"))
          => ((Get(lastOp.ret).success /\ Get(lastOp.ret).error = None)
                <=> IsSome(FindCalendar(srvCalendars, Get(lastOp.cfg.calendarName))))
    /\ (lastOp.verb \in SyncVerbs /\ Did(lastOp, "list"))
          => ((lastOp.res = "CalendarNotFound")
                <=> ~CalendarFound(lastOp.cfg.calendarName, ListedNames))

\* The tester passed the name Home, which no calendar displays and the
\* resolver finds by the last segment of the calendar's url.
C38_Witness ==
    /\ lastOp.verb = "testConnection"
    /\ lastOp.cfg.calendarName = Some(<<"Home">>)
    /\ Did(lastOp, "list")
    /\ Get(lastOp.ret).success
    /\ Get(lastOp.ret).error = None
    /\ FindCalendar(srvCalendars, <<"Home">>) = Some(CalHome)
    /\ \A i \in 1..Len(srvCalendars) : srvCalendars[i].displayname # Some(<<"Home">>)

(* C39: after any sequence of createTodo, updateTodo and completeTodo      *)
(* calls a stored todo has a COMPLETED timestamp only if its STATUS is     *)
(* COMPLETED: a todo set back from COMPLETED to another status has none.   *)
C39_CompletedOnlyWhenDone ==
    \A c \in CalIds : \A u \in DOMAIN srvObjects[c] :
        (srvObjects[c][u].comp = "VTODO" /\ IsSome(srvObjects[c][u].completed))
            => srvObjects[c][u].status = Some("COMPLETED")

\* updateTodo has set a completed todo back to NEEDS-ACTION and the todo it
\* wrote, the one now stored, has the COMPLETED timestamp it had before.
C39_Witness ==
    /\ lastOp.verb = "updateTodo"
    /\ Get(lastOp.data).status = Some("NEEDS-ACTION")
    /\ Did(lastOp, "update")
    /\ Get(lastOp.pre).status = Some("COMPLETED")
    /\ IsSome(Get(lastOp.pre).completed)
    /\ Get(lastOp.sent).status = Some("NEEDS-ACTION")
    /\ Get(lastOp.sent).completed = Get(lastOp.pre).completed
    /\ srvObjects[Get(lastOp.cal).id][Get(lastOp.sent).uid] = Get(lastOp.sent)

====
